---- MODULE Spec2Model ----
(***************************************************************************)
(* A model of insteonDeviceClasses.py: the host side driver of an Insteon  *)
(* power line modem (PLM).  Strings of the source are sequences of bytes   *)
(* (0..255).  The serial channel is an input of every operation: a script  *)
(* that says what each call on the channel does (a read returns bytes, or  *)
(* raises; a write or a flush returns, or raises).  Every operation of the *)
(* source is one action, and records the calls it made on the channel.     *)
(* The calls that may raise are the two flushes that open an operation,    *)
(* the write of an exchange and its reads; the flushes that follow a       *)
(* failed exchange are taken to return.                                    *)
(***************************************************************************)
EXTENDS Integers, Sequences, FiniteSets, TLC

VARIABLES
    dev,        \* the device object: a dimmer or a thermostat, with its fields
    chan,       \* the calls the last operation made on the channel, in order
    lastEvent,  \* the last event errorReporting printed for the device
    last,       \* the last operation: its name, input, outcome and event
    x           \* the last call of a transport function, with its script

vars == <<dev, chan, lastEvent, last, x>>

(***************************************************************************)
(* Bounds of the model.                                                    *)
(***************************************************************************)
\* SetOn is given LevelSamples + 1 levels, spread evenly over 0..100
LevelSamples == 2
\* StdCmd is called with nResponse in 1..MaxResponses
MaxResponses == 3

(***************************************************************************)
(* Bytes of the protocol.                                                  *)
(***************************************************************************)
STX == 2
SendCode == 98
StdFlags == 15
ExtFlags == 31
ACK == 6
StdMarker == 80
ExtMarker == 81

Min(a, b) == IF a < b THEN a ELSE b

\* the Python slice s[-n:]
Tail_(s, n) == IF Len(s) <= n THEN s ELSE SubSeq(s, Len(s) - n + 1, Len(s))

\* the Python slice s[:n]
Head_(s, n) == SubSeq(s, 1, Min(n, Len(s)))

RECURSIVE SumSeq(_)
SumSeq(s) == IF s = <<>> THEN 0 ELSE s[1] + SumSeq(Tail(s))

\* n bytes of zero
Zeros(n) == [i \in 1..n |-> 0]

(***************************************************************************)
(* CalcCrcStr.  The accumulator crcVal is a Python integer that is never   *)
(* masked, and grows by one bit per step.  It is kept whole, in two parts: *)
(* lo, its 16 low bits as a number, and hi, the list of its bits from bit  *)
(* 16 up (lowest first).                                                   *)
(***************************************************************************)
BigInt(hi, lo) == [hi |-> hi, lo |-> lo]

\* n & (1 << k), for k < 16
BitSet(n, k) == (n.lo \div (2 ^ k)) % 2 = 1

\* (n << 1) | fb
ShiftIn(n, fb) == BigInt(<<n.lo \div 32768>> \o n.hi, (n.lo % 32768) * 2 + fb)

\* (n >> sh) & 0xff, for sh <= 8
ByteOf(n, sh) == (n.lo \div (2 ^ sh)) % 256

Flip(fb, cond) == IF cond THEN 1 - fb ELSE fb

\* the feedback bit as it would be with the tap 0x2000 for 0x1000
FeedbackTap13(crcVal, byte) ==
    LET f0 == byte % 2
        f1 == Flip(f0, BitSet(crcVal, 15))
        f2 == Flip(f1, BitSet(crcVal, 14))
        f3 == Flip(f2, BitSet(crcVal, 13))
        f4 == Flip(f3, BitSet(crcVal, 3))
    IN  f4

\* the feedback bit of one pass of the inner loop
Feedback(crcVal, byte) ==
    LET f0 == byte % 2
        f1 == Flip(f0, BitSet(crcVal, 15))
        f2 == Flip(f1, BitSet(crcVal, 14))
        f3 == Flip(f2, BitSet(crcVal, 12))
        f4 == Flip(f3, BitSet(crcVal, 3))
    IN  f4

RECURSIVE CrcByte(_)
\* the inner loop, from the state s = [crcVal, byte, iByte] on
CrcByte(s) ==
    IF s.iByte = 8 THEN s.crcVal
    ELSE CrcByte([crcVal |-> ShiftIn(s.crcVal, Feedback(s.crcVal, s.byte)),
                  byte |-> s.byte \div 2,
                  iByte |-> s.iByte + 1])

RECURSIVE CrcLoop(_)
\* the outer loop, from the state s = [crcVal, dataStr, iChar] on
CrcLoop(s) ==
    IF s.iChar = Len(s.dataStr) THEN s.crcVal
    ELSE CrcLoop([s EXCEPT
                    !.crcVal = CrcByte([crcVal |-> s.crcVal,
                                        byte |-> s.dataStr[s.iChar + 1],
                                        iByte |-> 0]),
                    !.iChar = s.iChar + 1])

\* the value of crcVal after the loops
CrcVal(dataStr) ==
    CrcLoop([crcVal |-> BigInt(<<>>, 0), dataStr |-> dataStr, iChar |-> 0])

\* the two bytes from crcVal
\* the two bytes as they would be with the shifts (8, 8) for (8, 0)
CrcBytesHighTwice(crcVal) == <<ByteOf(crcVal, 8), ByteOf(crcVal, 8)>>

CrcBytes(crcVal) == <<ByteOf(crcVal, 8), ByteOf(crcVal, 0)>>

\* the 12 bytes of a day of a schedule: four periods of time, cool and heat
DayData(base) ==
    << 24 + base, 24, 18,  32, 27, 15,  68 + base, 24, 19,  90, 25, 17 >>

\* the schedules a thermostat reports, and is given
Bases == {0}

\* the strings the operations of the model give to CalcCrcStr: command1,
\* command2 and 12 bytes of data, of GetSchedule and of SetSchedule
CrcKnown ==
    { <<46, 10 + iDay * 2>> \o Zeros(12) : iDay \in 0..6 }
    \cup { <<46, 3 + iDay>> \o DayData(base) : iDay \in 0..6, base \in Bases }

\* CalcCrcStr on these strings, evaluated once
CrcTable == [dataStr \in CrcKnown |-> CrcBytes(CrcVal(dataStr))]

CalcCrcStr(dataStr) ==
    IF dataStr \in CrcKnown THEN CrcTable[dataStr]
    ELSE CrcBytes(CrcVal(dataStr))

(***************************************************************************)
(* The channel.  A script is what the channel does during one exchange:    *)
(* wr says whether write raises, rd[i] is the outcome of the i-th read: it *)
(* raises, or it returns data (at most the number of bytes asked for).     *)
(* A call is recorded as [c, n, data]: the method, the number of bytes     *)
(* asked of a read, the bytes given to a write.                            *)
(***************************************************************************)
Call(c, n, data) == [c |-> c, n |-> n, data |-> data]
WriteCall(frame) == Call("write", 0, frame)
ReadCall(n) == Call("read", n, <<>>)
FlushCalls == <<Call("flushInput", 0, <<>>), Call("flushOutput", 0, <<>>)>>

Reply(data) == [raise |-> FALSE, data |-> data]
Raise == [raise |-> TRUE, data |-> <<>>]

\* the result of an exchange: the list the source returns, whether an
\* exception left the function, and the calls it made on the channel
Result(response, error, exc, calls) ==
    [response |-> response, error |-> error, exc |-> exc, calls |-> calls]

\* the refusal as it would be if the buffers were flushed before it
RefusedFlushed == Result(<<>>, TRUE, FALSE, FlushCalls)

\* return ["", True] on a command of the wrong length: no call is made
Refused == Result(<<>>, TRUE, FALSE, <<>>)

\* the reads as they would be made if an exception did not end the try block
ReadsAll(rd, n) == n

\* the reads of a try block: they are made in order up to the first that raises
RaiseAt(rd, n) == {i \in 1..n : rd[i].raise}
ReadsDone(rd, n) ==
    IF RaiseAt(rd, n) = {} THEN n
    ELSE CHOOSE i \in RaiseAt(rd, n) : \A j \in RaiseAt(rd, n) : i <= j

ReadCalls(req, done) == [i \in 1..done |-> ReadCall(req[i])]

RECURSIVE Concat(_, _, _)
\* rd[from].data + ... + rd[to].data
Concat(rd, from, to) ==
    IF from > to THEN <<>> ELSE rd[from].data \o Concat(rd, from + 1, to)

(***************************************************************************)
(* StdCmd: one standard exchange.                                          *)
(***************************************************************************)
\* the reads StdCmd asks for: the echo, then nResponse standard acks
StdReads(nResponse) == <<9>> \o [i \in 1..nResponse |-> 11]

\* the test on the lengths as it would be if the echo were only tested for
\* being empty
StdLenErrNoEcho(cmdEcho, response, nResponse) ==
    (Len(cmdEcho) = 0) \/ (Len(response) # 11 * nResponse)

\* the test on the lengths read
StdLenErr(cmdEcho, response, nResponse) ==
    (Len(cmdEcho) # 9) \/ (Len(response) # 11 * nResponse)

\* cmdEcho[-1] == chr(0x06), negated
AckErr(cmdEcho) == ~(cmdEcho[Len(cmdEcho)] = ACK)

RECURSIVE StdErrLoop(_, _, _, _)
\* the loop over the nResponse segments, from segment iResponse on
StdErrLoop(response, nResponse, iResponse, stdErr) ==
    IF iResponse >= nResponse THEN stdErr
    ELSE LET iChar == 1 + 11 * iResponse
         IN  StdErrLoop(response, nResponse, iResponse + 1,
                        ~((response[iChar + 1] = StdMarker) /\ (~stdErr)))

\* the loop as it would be without the (not(stdErr)) term: the last segment
\* decides
StdErrLastOnly(response, nResponse) ==
    ~(response[1 + 11 * (nResponse - 1) + 1] = StdMarker)

StdErr(response, nResponse) == StdErrLoop(response, nResponse, 0, FALSE)

StdCmd(cmdStr, nResponse, sc) ==
    IF Len(cmdStr) # 8 THEN Refused
    ELSE IF sc.wr THEN Result(<<>>, TRUE, TRUE, <<WriteCall(cmdStr)>>)
    ELSE
      LET req == StdReads(nResponse)
          done == ReadsDone(sc.rd, Len(req))
          calls == <<WriteCall(cmdStr)>> \o ReadCalls(req, done)
      IN  IF RaiseAt(sc.rd, Len(req)) # {}
          THEN Result(<<>>, TRUE, FALSE, calls)
          ELSE
            LET cmdEcho == sc.rd[1].data
                response == Concat(sc.rd, 2, nResponse + 1)
            IN  IF StdLenErr(cmdEcho, response, nResponse)
                THEN Result(<<>>, TRUE, FALSE, calls)
                ELSE IF AckErr(cmdEcho) \/ StdErr(response, nResponse)
                THEN Result(<<>>, TRUE, FALSE, calls \o FlushCalls)
                ELSE Result(response, FALSE, FALSE, calls)

(***************************************************************************)
(* ExtCrc and ExtChecksum: one extended exchange.                          *)
(***************************************************************************)
\* the reads as they would be if the extended segment were always read
ExtReadsAlways(extreadback) == <<23, 11, 25>>

\* the reads an extended exchange asks for
ExtReads(extreadback) == IF extreadback THEN <<23, 11, 25>> ELSE <<23, 11>>

\* the test on the lengths read by ExtCrc
ExtCrcLenErr(cmdEcho, stdAck, response, extreadback) ==
    LET lr == IF extreadback THEN Len(response) # 25 ELSE FALSE
    IN  (Len(cmdEcho) # 23) \/ (Len(stdAck) # 11) \/ lr

\* the test of the standard ack as it would be without the comparison of
\* the command bytes
ExtStdErrMarkerOnly(stdAck, tempStr) == ~(stdAck[2] = StdMarker)

\* not((stdAck[1] == chr(0x50)) and (stdAck[-2:] == tempStr[6:8]))
ExtStdErr(stdAck, tempStr) ==
    ~((stdAck[2] = StdMarker) /\ (Tail_(stdAck, 2) = SubSeq(tempStr, 7, 8)))

\* not((response[1] == chr(0x51)))
ExtErr(response) == ~(response[2] = ExtMarker)

ExtCrc(cmdStr, extreadback, sc) ==
    IF Len(cmdStr) # 20 THEN Refused
    ELSE
      LET crcStr == CalcCrcStr(Tail_(cmdStr, 14))
          tempStr == cmdStr \o crcStr
          req == ExtReads(extreadback)
          done == ReadsDone(sc.rd, Len(req))
          calls == <<WriteCall(tempStr)>> \o ReadCalls(req, done)
      IN  IF sc.wr THEN Result(<<>>, TRUE, TRUE, <<WriteCall(tempStr)>>)
          ELSE IF RaiseAt(sc.rd, Len(req)) # {}
          THEN Result(<<>>, TRUE, FALSE, calls)
          ELSE
            LET cmdEcho == sc.rd[1].data
                stdAck == sc.rd[2].data
                response == IF extreadback THEN sc.rd[3].data ELSE <<>>
            IN  IF ExtCrcLenErr(cmdEcho, stdAck, response, extreadback)
                THEN Result(<<>>, TRUE, FALSE, calls)
                ELSE
                  LET ackErr == AckErr(cmdEcho)
                      stdErr == ExtStdErr(stdAck, tempStr)
                      extErr == IF extreadback THEN ExtErr(response) ELSE FALSE
                  IN  IF ackErr \/ stdErr \/ extErr
                      THEN Result(<<>>, TRUE, FALSE, calls \o FlushCalls)
                      ELSE Result(response, FALSE, FALSE, calls)

\* the checksum as it would be without the + 0x01: the ones' complement
ChecksumOnesComplement(cmdStr) == 255 - (SumSeq(Tail_(cmdStr, 15)) % 256)

\* chr((((sum(bytearray(cmdStr[-15:]))%256) ^ 0xff) + 0x01)%256)
Checksum(cmdStr) == ((255 - (SumSeq(Tail_(cmdStr, 15)) % 256)) + 1) % 256

\* the test on the lengths read by ExtChecksum
ExtCsLenErr(cmdEcho, stdAck, response) ==
    (Len(cmdEcho) # 23) \/ (Len(stdAck) # 11) \/ (Len(response) # 25)

ExtChecksum(cmdStr, sc) ==
    IF Len(cmdStr) # 21 THEN Refused
    ELSE
      LET tempStr == cmdStr \o <<Checksum(cmdStr)>>
          req == ExtReads(TRUE)
          done == ReadsDone(sc.rd, Len(req))
          calls == <<WriteCall(tempStr)>> \o ReadCalls(req, done)
      IN  IF sc.wr THEN Result(<<>>, TRUE, TRUE, <<WriteCall(tempStr)>>)
          ELSE IF RaiseAt(sc.rd, Len(req)) # {}
          THEN Result(<<>>, TRUE, FALSE, calls)
          ELSE
            LET cmdEcho == sc.rd[1].data
                stdAck == sc.rd[2].data
                response == sc.rd[3].data
            IN  IF ExtCsLenErr(cmdEcho, stdAck, response)
                THEN Result(<<>>, TRUE, FALSE, calls)
                ELSE
                  LET ackErr == AckErr(cmdEcho)
                      stdErr == ExtStdErr(stdAck, tempStr)
                      extErr == ExtErr(response)
                  IN  IF ackErr \/ stdErr \/ extErr
                      THEN Result(<<>>, TRUE, FALSE, calls \o FlushCalls)
                      ELSE Result(response, FALSE, FALSE, calls)

(***************************************************************************)
(* errorReporting.  It returns the new status, and prints on an edge: the  *)
(* event is "entered", "recovered" or "none".                              *)
(***************************************************************************)
\* errorReporting as it would be if it printed on every call, not on edges
errorReportingAlways(localError, errorStatus, verbose) ==
    IF localError
    THEN [status |-> TRUE, event |-> IF verbose THEN "entered" ELSE "none"]
    ELSE [status |-> FALSE, event |-> IF verbose THEN "recovered" ELSE "none"]

\* errorReporting as it would be if an error, once entered, were kept
errorReportingSticky(localError, errorStatus, verbose) ==
    IF localError \/ errorStatus
    THEN [status |-> TRUE,
          event |-> IF (errorStatus = FALSE) /\ verbose THEN "entered" ELSE "none"]
    ELSE [status |-> FALSE, event |-> "none"]

errorReporting(localError, errorStatus, verbose) ==
    IF localError
    THEN [status |-> TRUE,
          event |-> IF (errorStatus = FALSE) /\ verbose THEN "entered" ELSE "none"]
    ELSE [status |-> FALSE,
          event |-> IF (errorStatus = TRUE) /\ verbose THEN "recovered" ELSE "none"]

(***************************************************************************)
(* What the channel may answer.  sent is the frame the exchange writes.    *)
(***************************************************************************)
PlmId == <<17, 34, 51>>

\* the echo of the PLM: the frame and one byte, ACK or NAK
Echo(sent, ack) == sent \o <<ack>>

\* a standard message from the device: 02 50 from(3) to(3) flags cmd1 cmd2
StdMsg(sent, marker, c1, c2) ==
    <<STX, marker>> \o SubSeq(sent, 3, 5) \o PlmId \o <<47, c1, c2>>

\* an extended message from the device: the same and 14 bytes of data
ExtMsg(sent, marker, c1, c2, data) ==
    <<STX, marker>> \o SubSeq(sent, 3, 5) \o PlmId \o <<27, c1, c2>> \o data

\* the echo cut by a timeout: one byte short, and ending in ACK
ShortEcho(sent) == Echo(Head_(sent, Len(sent) - 1), ACK)

\* the outcomes of the read of the echo: right, NAK (0x15), one byte short,
\* nothing at all, an exception
EchoReplies(sent) ==
    { Reply(Echo(sent, ACK)), Reply(Echo(sent, 21)),
      Reply(ShortEcho(sent)), Reply(<<>>), Raise }

\* the outcomes of the read of a standard ack that should be good
StdReplies(sent, good) ==
    { Reply(good),
      Reply([good EXCEPT ![2] = ExtMarker]), Reply([good EXCEPT ![2] = 21]),
      Reply(Head_(good, 10)), Raise }

\* the outcomes of the read of an extended message that should be good
ExtReplies(sent, good) ==
    { Reply(good), Reply([good EXCEPT ![2] = StdMarker]),
      Reply(Head_(good, 24)), Raise }

(***************************************************************************)
(* The scripts of the operations of several exchanges.  Each exchange goes *)
(* one of these ways: "ok"; "wr", write raises; "raise", the first read    *)
(* raises; "short", the echo comes one byte short; "marker", the standard  *)
(* ack carries 0x51.  good is the list of the right replies.               *)
(***************************************************************************)
Kinds == {"ok", "wr", "raise", "short", "marker"}

\* the ways the exchange of an operation of one exchange goes: those, and
\* "nak", the echo ends in NAK (0x15); "raise2", the second read raises;
\* "shortack", the standard ack comes one byte short
OneKinds == Kinds \cup {"nak", "raise2", "shortack"}

Script(sent, kind, good) ==
    LET rd == [i \in 1..Len(good) |-> Reply(good[i])]
    IN  CASE kind = "ok" -> [wr |-> FALSE, rd |-> rd]
          [] kind = "wr" -> [wr |-> TRUE, rd |-> rd]
          [] kind = "raise" -> [wr |-> FALSE, rd |-> [rd EXCEPT ![1] = Raise]]
          [] kind = "short" ->
               [wr |-> FALSE, rd |-> [rd EXCEPT ![1] = Reply(ShortEcho(sent))]]
          [] kind = "marker" ->
               [wr |-> FALSE,
                rd |-> [rd EXCEPT ![2] = Reply([good[2] EXCEPT ![2] = ExtMarker])]]
          [] kind = "nak" ->
               [wr |-> FALSE, rd |-> [rd EXCEPT ![1] = Reply(Echo(sent, 21))]]
          [] kind = "raise2" -> [wr |-> FALSE, rd |-> [rd EXCEPT ![2] = Raise]]
          [] kind = "shortack" ->
               [wr |-> FALSE, rd |-> [rd EXCEPT ![2] = Reply(Head_(good[2], 10))]]

\* the scripts of an operation of one standard exchange, whose response
\* ends in byte d
OneStd(sent, d) ==
    { Script(sent, k, <<Echo(sent, ACK), StdMsg(sent, StdMarker, sent[7], d)>>) :
        k \in OneKinds }

\* the scripts of an operation of one extended exchange
OneExt(sent) ==
    { Script(sent, k, <<Echo(sent, ACK),
                        StdMsg(sent, StdMarker, sent[7], sent[8]),
                        ExtMsg(sent, ExtMarker, sent[7], sent[8], Zeros(14))>>) :
        k \in OneKinds }

\* the ways the n exchanges of one operation go, each in one of the kinds K:
\* at most one of them goes wrong, or all of them go wrong the same way
Ways(n, K) ==
    { [i \in 1..n |-> IF i = j THEN k ELSE "ok"] : j \in 1..n, k \in K }
    \cup { [i \in 1..n |-> k] : k \in K }

\* the ways the 7 exchanges of a schedule go: the first day, a middle one or
\* the last goes wrong, or all of them go wrong the same way
DayWays(K) ==
    { [i \in 1..7 |-> IF i = j THEN k ELSE "ok"] : j \in {1, 4, 7}, k \in K }
    \cup { [i \in 1..7 |-> k] : k \in K }

(***************************************************************************)
(* The devices.                                                            *)
(***************************************************************************)
Sentinel == <<0, 0, 0>>

RECURSIVE MaxSeq(_)
MaxSeq(s) == IF Len(s) = 1 THEN s[1]
             ELSE LET m == MaxSeq(Tail(s)) IN IF s[1] > m THEN s[1] ELSE m

RECURSIVE MinSeq(_)
MinSeq(s) == IF Len(s) = 1 THEN s[1]
             ELSE LET m == MinSeq(Tail(s)) IN IF s[1] < m THEN s[1] ELSE m

\* the test as it would be without the test of the smallest element
CheckAddressMaxOnly(address) ==
    IF Len(address) # 3 THEN Sentinel
    ELSE IF MaxSeq(address) > 255 THEN Sentinel
    ELSE address

\* the test of __init__ on the address (the same in both classes)
CheckAddress(address) ==
    IF Len(address) # 3 THEN Sentinel
    ELSE IF MaxSeq(address) > 255 \/ MinSeq(address) < 0 THEN Sentinel
    ELSE address

dimmer(address) ==
    [class |-> "dimmer", address |-> CheckAddress(address),
     lastSetOn |-> FALSE, lastSetLevel |-> 0,
     lastGetOn |-> FALSE, lastGetLevel |-> 0,
     manualOverride |-> FALSE, errorStatus |-> FALSE]

\* the addresses given to the constructors
AddrInputs == { <<0, 0, 0>>, <<26, 43, 60>>, <<26, 43>>, <<26, 256, 60>>,
                <<-1, 43, 60>> }

\* the outcome of an operation, as the variable last
Last(op, arg, status, event, reply) ==
    [op |-> op, arg |-> arg, status |-> status, event |-> event, reply |-> reply]

\* an operation on the null address as it would be if the buffers were
\* flushed before the test of the address
NoOpFlushed(op, arg) ==
    /\ dev' = dev
    /\ chan' = FlushCalls
    /\ lastEvent' = lastEvent
    /\ last' = Last(op, arg, "noop", "none", -1)
    /\ UNCHANGED x

\* an operation on the null address: the warning is printed, nothing else
NoOp(op, arg) ==
    /\ dev' = dev
    /\ chan' = <<>>
    /\ lastEvent' = lastEvent
    /\ last' = Last(op, arg, "noop", "none", -1)
    /\ UNCHANGED x

\* an operation that refuses its input as it would be if the buffers were
\* flushed before the input is tested
RejectedFlushed(op, arg) ==
    /\ dev' = dev
    /\ chan' = FlushCalls
    /\ lastEvent' = lastEvent
    /\ last' = Last(op, arg, "rejected", "none", -1)
    /\ UNCHANGED x

\* an operation that refuses its input: the error is printed, nothing else
Rejected(op, arg) ==
    /\ dev' = dev
    /\ chan' = <<>>
    /\ lastEvent' = lastEvent
    /\ last' = Last(op, arg, "rejected", "none", -1)
    /\ UNCHANGED x

\* when a flush raises before the first exchange, no script is consulted:
\* one stands for all
Unless(pre, S) == IF pre = 0 THEN S ELSE {CHOOSE e \in S : TRUE}

\* the flushes that open an operation as they would be without flushOutput
PreFlushInputOnly(pre) == SubSeq(FlushCalls, 1, 1)

\* plmSerial.flushInput(); plmSerial.flushOutput(), of which pre may raise
\* (0: none, 1: flushInput, 2: flushOutput): the calls made
PreFlush(pre) == IF pre = 1 THEN SubSeq(FlushCalls, 1, 1) ELSE FlushCalls

\* an exception leaves the operation: the fields written so far stay
Raised(op, arg, d, calls) ==
    /\ dev' = d
    /\ chan' = calls
    /\ lastEvent' = lastEvent
    /\ last' = Last(op, arg, "raised", "none", -1)
    /\ UNCHANGED x

\* the operation returns after errorReporting(..., error, errorStatus, True)
Returned(op, arg, d, calls, error, reply) ==
    LET er == errorReporting(error, dev.errorStatus, TRUE)
    IN  /\ dev' = [d EXCEPT !.errorStatus = er.status]
        /\ chan' = calls
        /\ lastEvent' = IF er.event = "none" THEN lastEvent ELSE er.event
        /\ last' = Last(op, arg, IF error THEN "failed" ELSE "ok", er.event, reply)
        /\ UNCHANGED x

StdFrame(address, cmd1, cmd2) ==
    <<STX, SendCode>> \o address \o <<StdFlags, cmd1, cmd2>>

\* int(round(level*2.55)): Python 2 rounds the double half away from zero,
\* and the doubles 50*2.55 and 90*2.55 lie just below 127.5 and 229.5
LevelByte(level) ==
    IF level \in {50, 90} THEN (level * 255) \div 100
    ELSE (level * 255 + 50) \div 100

\* the level as it would be if the byte were stored without conversion
ByteLevelRaw(b) == b

\* int(round(x/2.55)); no x in 0..255 gives a tie
ByteLevel(b) == (b * 40 + 51) \div 102

Abs(n) == IF n < 0 THEN -n ELSE n

Levels == { (k * 100) \div LevelSamples : k \in 0..LevelSamples }

\* the level bytes a dimmer may report: those of the levels, 1, and two
\* bytes 2 and 3 points above level 50
GetBytes == { LevelByte(l) : l \in Levels } \cup {1, 133, 135}

DimmerSetOnBody(level, pre, sc) ==
    LET tempStr == StdFrame(dev.address, 17, LevelByte(level))
        r == StdCmd(tempStr, 1, sc)
        calls == PreFlush(pre) \o r.calls
    IN  IF pre # 0 THEN Raised("SetOn", level, dev, PreFlush(pre))
        ELSE IF r.exc THEN Raised("SetOn", level, dev, calls)
        ELSE Returned("SetOn", level,
                      IF ~r.error
                      THEN [dev EXCEPT !.lastSetOn = TRUE,
                                       !.lastSetLevel = level,
                                       !.manualOverride = FALSE]
                      ELSE dev,
                      calls, r.error, -1)

DimmerSetOn ==
    /\ dev.class = "dimmer"
    /\ \E level \in Levels :
         IF dev.address = Sentinel THEN NoOp("SetOn", level)
         ELSE \E pre \in 0..2 :
                \E sc \in Unless(pre,
                            OneStd(StdFrame(dev.address, 17, LevelByte(level)),
                                   LevelByte(level))) :
                  DimmerSetOnBody(level, pre, sc)

\* SetOff as it would be if it left lastSetLevel as it was
DimmerSetOffBodyKeepsLevel(pre, sc) ==
    LET tempStr == StdFrame(dev.address, 19, 0)
        r == StdCmd(tempStr, 1, sc)
        calls == PreFlush(pre) \o r.calls
    IN  IF pre # 0 THEN Raised("SetOff", 0, dev, PreFlush(pre))
        ELSE IF r.exc THEN Raised("SetOff", 0, dev, calls)
        ELSE Returned("SetOff", 0,
                      IF ~r.error
                      THEN [dev EXCEPT !.lastSetOn = FALSE,
                                       !.manualOverride = FALSE]
                      ELSE dev,
                      calls, r.error, -1)

\* SetOff as it would be if the fields were written before the outcome of
\* the exchange is looked at
DimmerSetOffBodyEager(pre, sc) ==
    LET tempStr == StdFrame(dev.address, 19, 0)
        r == StdCmd(tempStr, 1, sc)
        calls == PreFlush(pre) \o r.calls
    IN  IF pre # 0 THEN Raised("SetOff", 0, dev, PreFlush(pre))
        ELSE IF r.exc THEN Raised("SetOff", 0, dev, calls)
        ELSE Returned("SetOff", 0,
                      [dev EXCEPT !.lastSetOn = FALSE,
                                  !.lastSetLevel = 0,
                                  !.manualOverride = FALSE],
                      calls, r.error, -1)

DimmerSetOffBody(pre, sc) ==
    LET tempStr == StdFrame(dev.address, 19, 0)
        r == StdCmd(tempStr, 1, sc)
        calls == PreFlush(pre) \o r.calls
    IN  IF pre # 0 THEN Raised("SetOff", 0, dev, PreFlush(pre))
        ELSE IF r.exc THEN Raised("SetOff", 0, dev, calls)
        ELSE Returned("SetOff", 0,
                      IF ~r.error
                      THEN [dev EXCEPT !.lastSetOn = FALSE,
                                       !.lastSetLevel = 0,
                                       !.manualOverride = FALSE]
                      ELSE dev,
                      calls, r.error, -1)

DimmerSetOff ==
    /\ dev.class = "dimmer"
    /\ IF dev.address = Sentinel THEN NoOp("SetOff", 0)
       ELSE \E pre \in 0..2 :
              \E sc \in Unless(pre, OneStd(StdFrame(dev.address, 19, 0), 0)) :
                DimmerSetOffBody(pre, sc)

\* the fields GetState writes from the level byte x of the response
DimmerObserve(d, xb) ==
    LET lastGetOn == IF xb = 0 THEN FALSE ELSE TRUE
        lastGetLevel == ByteLevel(xb)
    IN  [d EXCEPT !.lastGetOn = lastGetOn,
                  !.lastGetLevel = lastGetLevel,
                  !.manualOverride =
                      IF lastGetOn # d.lastSetOn
                         \/ Abs(lastGetLevel - d.lastSetLevel) > 2
                      THEN TRUE ELSE d.manualOverride]

DimmerGetStateBody(pre, sc) ==
    LET tempStr == StdFrame(dev.address, 25, 0)
        r == StdCmd(tempStr, 1, sc)
        calls == PreFlush(pre) \o r.calls
    IN  IF pre # 0 THEN Raised("GetState", 0, dev, PreFlush(pre))
        ELSE IF r.exc THEN Raised("GetState", 0, dev, calls)
        ELSE Returned("GetState", 0,
                      IF ~r.error
                      THEN DimmerObserve(dev, r.response[Len(r.response)])
                      ELSE dev,
                      calls, r.error,
                      IF ~r.error THEN r.response[Len(r.response)] ELSE -1)

DimmerGetState ==
    /\ dev.class = "dimmer"
    /\ IF dev.address = Sentinel THEN NoOp("GetState", 0)
       ELSE \E pre \in 0..2 :
              \E xb \in Unless(pre, GetBytes) :
              \E sc \in Unless(pre, OneStd(StdFrame(dev.address, 25, 0), xb)) :
                DimmerGetStateBody(pre, sc)

(***************************************************************************)
(* The thermostat.  actualTemp is kept in tenths of a degree: the source   *)
(* divides the 16 bit reading by 10.0.                                     *)
(***************************************************************************)
thermostat(address) ==
    [class |-> "thermostat", address |-> CheckAddress(address),
     mode |-> 8, modeText |-> "unknown",
     targetHeat |-> 0, targetCool |-> 0, actualTemp |-> 0, actualHumi |-> 0,
     schedule |-> <<>>, errorStatus |-> FALSE]

\* the names as they would be with Heat and Cool in the other order
modeTextArraySwapped == <<"Off", "Cool", "Heat", "Auto", "Fan", "Program",
                          "Program Heat", "Program Cool", "Unknown">>

modeTextArray == <<"Off", "Heat", "Cool", "Auto", "Fan", "Program",
                   "Program Heat", "Program Cool", "Unknown">>

ExtPrefix(address) == <<STX, SendCode>> \o address \o <<ExtFlags>>

\* the frame of an extended checksum command, as ExtChecksum sends it
CsFrame(cmdStr) == cmdStr \o <<Checksum(cmdStr)>>

\* the frame of an extended CRC command, as ExtCrc sends it
CrcFrame(cmdStr) == cmdStr \o CalcCrcStr(Tail_(cmdStr, 14))

\* the progress of an operation of several exchanges: the device so far,
\* the calls so far, cumError, and whether an exception has left it
Progress(d, calls, cumError, exc) ==
    [d |-> d, calls |-> calls, cumError |-> cumError, exc |-> exc]

\* int(float(b)/2.0+0.5)
HalfByte(b) == (b + 1) \div 2

\* the test of the mode byte as it would be if 8 were taken too
ModeValidNine(responseMode) == (responseMode < 9) /\ (responseMode >= 0)

\* (responseMode < 8) and (responseMode >=0)
ModeValid(responseMode) == (responseMode < 8) /\ (responseMode >= 0)

\* get thermostat mode
GetMode(st, sc) ==
    IF st.exc THEN st
    ELSE
      LET tempStr == StdFrame(st.d.address, 107, 2)
          r == StdCmd(tempStr, 1, sc)
          calls == st.calls \o r.calls
          cumError == r.error \/ st.cumError
          responseMode == IF Len(r.response) = 0 THEN 9
                          ELSE r.response[Len(r.response)]
      IN  IF r.exc THEN Progress(st.d, calls, st.cumError, TRUE)
          ELSE IF ~r.error /\ ModeValid(responseMode)
          THEN Progress([st.d EXCEPT !.mode = responseMode,
                                     !.modeText = modeTextArray[responseMode + 1]],
                        calls, cumError, FALSE)
          ELSE Progress(st.d, calls \o FlushCalls, TRUE, FALSE)

\* get zone information, zone 0 setpoint
GetSetpoints(st, sc) ==
    IF st.exc THEN st
    ELSE
      LET tempStr == StdFrame(st.d.address, 106, 32)
          r == StdCmd(tempStr, 2, sc)
          calls == st.calls \o r.calls
          cumError == r.error \/ st.cumError
          responseHeat == Head_(r.response, 11)
          responseCool == SubSeq(r.response, 12, Len(r.response))
      IN  IF r.exc THEN Progress(st.d, calls, st.cumError, TRUE)
          ELSE IF ~r.error
          THEN Progress([st.d EXCEPT
                           !.targetHeat = HalfByte(responseHeat[Len(responseHeat)]),
                           !.targetCool = HalfByte(responseCool[Len(responseCool)])],
                        calls, cumError, FALSE)
          ELSE Progress(st.d, calls \o FlushCalls, cumError, FALSE)

\* the third exchange as it would be if it were left out once an earlier
\* exchange has failed
GetHumiditySkip(st, sc) ==
    IF st.exc \/ st.cumError THEN st
    ELSE
      LET tempStr == StdFrame(st.d.address, 106, 96)
          r == StdCmd(tempStr, 1, sc)
          calls == st.calls \o r.calls
          cumError == r.error \/ st.cumError
      IN  IF r.exc THEN Progress(st.d, calls, st.cumError, TRUE)
          ELSE IF ~r.error
          THEN Progress([st.d EXCEPT !.actualHumi = r.response[Len(r.response)]],
                        calls, cumError, FALSE)
          ELSE Progress(st.d, calls \o FlushCalls, cumError, FALSE)

\* get zone information, zone 0 humidity
GetHumidity(st, sc) ==
    IF st.exc THEN st
    ELSE
      LET tempStr == StdFrame(st.d.address, 106, 96)
          r == StdCmd(tempStr, 1, sc)
          calls == st.calls \o r.calls
          cumError == r.error \/ st.cumError
      IN  IF r.exc THEN Progress(st.d, calls, st.cumError, TRUE)
          ELSE IF ~r.error
          THEN Progress([st.d EXCEPT !.actualHumi = r.response[Len(r.response)]],
                        calls, cumError, FALSE)
          ELSE Progress(st.d, calls \o FlushCalls, cumError, FALSE)

\* the command of the fourth exchange: 0x2E 0x00 and 13 bytes of zero
TempCmd(address) == ExtPrefix(address) \o <<46, 0>> \o Zeros(13)

\* get dataset 1 extended CS command
GetTemperature(st, sc) ==
    IF st.exc THEN st
    ELSE
      LET tempStr == TempCmd(st.d.address)
          r == ExtChecksum(tempStr, sc)
          calls == st.calls \o r.calls
          cumError == r.error \/ st.cumError
      IN  IF r.exc THEN Progress(st.d, calls, st.cumError, TRUE)
          ELSE IF ~r.error
          THEN Progress([st.d EXCEPT
                           !.actualTemp = r.response[14] * 256 + r.response[15]],
                        calls, cumError, FALSE)
          ELSE Progress(st.d, calls \o FlushCalls, cumError, FALSE)

\* the end of an operation of several exchanges; reply is what the
\* channel answered
Finish(op, arg, st, reply) ==
    IF st.exc THEN Raised(op, arg, st.d, st.calls)
    ELSE Returned(op, arg, st.d, st.calls, st.cumError, reply)

ThGetStateBody(pre, scs, reply) ==
    IF pre # 0 THEN Raised("GetState", 0, dev, PreFlush(pre))
    ELSE
      LET s0 == Progress(dev, PreFlush(pre), FALSE, FALSE)
          s1 == GetMode(s0, scs[1])
          s2 == GetSetpoints(s1, scs[2])
          s3 == GetHumidity(s2, scs[3])
          s4 == GetTemperature(s3, scs[4])
      IN  Finish("GetState", 0, s4, reply)

\* what a thermostat reports: the mode byte, the two setpoint bytes, the
\* humidity byte, and the two bytes of the temperature
Reading(m, h, c, u, hi, lo) ==
    [mode |-> m, heat |-> h, cool |-> c, humi |-> u, hi |-> hi, lo |-> lo]

\* the scripts of the four exchanges of GetState, for the ways w
GetStateScripts(address, rdg, w) ==
    LET f1 == StdFrame(address, 107, 2)
        f2 == StdFrame(address, 106, 32)
        f3 == StdFrame(address, 106, 96)
        f4 == CsFrame(TempCmd(address))
    IN  << Script(f1, w[1], <<Echo(f1, ACK),
                               StdMsg(f1, StdMarker, 107, rdg.mode)>>),
           Script(f2, w[2], <<Echo(f2, ACK),
                               StdMsg(f2, StdMarker, 106, rdg.heat),
                               StdMsg(f2, StdMarker, 106, rdg.cool)>>),
           Script(f3, w[3], <<Echo(f3, ACK),
                               StdMsg(f3, StdMarker, 106, rdg.humi)>>),
           Script(f4, w[4], <<Echo(f4, ACK),
                               StdMsg(f4, StdMarker, 46, 0),
                               ExtMsg(f4, ExtMarker, 46, 0,
                                      <<0, 0, rdg.hi, rdg.lo>> \o Zeros(10))>>) >>

ThGetState(Readings) ==
    /\ dev.class = "thermostat"
    /\ IF dev.address = Sentinel THEN NoOp("GetState", 0)
       ELSE \E pre \in 0..2 :
              \E rdg \in Unless(pre, Readings), w \in Unless(pre, Ways(4, Kinds)) :
              ThGetStateBody(pre, GetStateScripts(dev.address, rdg, w),
                             [rdg |-> rdg, w |-> w])

\* UpSetPoint (cmd1 0x15) and DownSetPoint (cmd1 0x16)
ThNudgeBody(op, cmd1, pre, sc) ==
    LET tempStr == StdFrame(dev.address, cmd1, 0)
        r == StdCmd(tempStr, 1, sc)
        calls == PreFlush(pre) \o r.calls
    IN  IF pre # 0 THEN Raised(op, 0, dev, PreFlush(pre))
        ELSE IF r.exc THEN Raised(op, 0, dev, calls)
        ELSE Returned(op, 0, dev, calls, r.error, -1)

ThUpSetPoint ==
    /\ dev.class = "thermostat"
    /\ IF dev.address = Sentinel THEN NoOp("UpSetPoint", 0)
       ELSE \E pre \in 0..2 :
              \E sc \in Unless(pre, OneStd(StdFrame(dev.address, 21, 0), 0)) :
                ThNudgeBody("UpSetPoint", 21, pre, sc)

ThDownSetPoint ==
    /\ dev.class = "thermostat"
    /\ IF dev.address = Sentinel THEN NoOp("DownSetPoint", 0)
       ELSE \E pre \in 0..2 :
              \E sc \in Unless(pre, OneStd(StdFrame(dev.address, 22, 0), 0)) :
                ThNudgeBody("DownSetPoint", 22, pre, sc)

\* the command of SetMode: 0x6B, the mode, and 13 bytes of zero
ModeCmd(address, mode) == ExtPrefix(address) \o <<107, mode>> \o Zeros(13)

\* SetMode as it would be if a mode that was set were stored as the mode
ThSetModeBodyStores(mode, pre, sc) ==
    LET tempStr == ModeCmd(dev.address, mode)
        r == ExtChecksum(tempStr, sc)
        calls == PreFlush(pre) \o r.calls
    IN  IF pre # 0 THEN Raised("SetMode", mode, dev, PreFlush(pre))
        ELSE IF r.exc THEN Raised("SetMode", mode, dev, calls)
        ELSE Returned("SetMode", mode,
                      IF ~r.error THEN [dev EXCEPT !.mode = mode] ELSE dev,
                      calls, r.error, -1)

ThSetModeBody(mode, pre, sc) ==
    LET tempStr == ModeCmd(dev.address, mode)
        r == ExtChecksum(tempStr, sc)
        calls == PreFlush(pre) \o r.calls
    IN  IF pre # 0 THEN Raised("SetMode", mode, dev, PreFlush(pre))
        ELSE IF r.exc THEN Raised("SetMode", mode, dev, calls)
        ELSE Returned("SetMode", mode, dev, calls, r.error, -1)

\* the scripts of an extended exchange with readback of the frame sent
ExtScripts(sent) ==
    { [wr |-> w, rd |-> <<e, a, r>>] :
        w \in BOOLEAN, e \in EchoReplies(sent),
        a \in StdReplies(sent, StdMsg(sent, StdMarker, sent[7], sent[8]))
              \cup {Reply(StdMsg(sent, StdMarker, sent[7], (sent[8] + 1) % 256))},
        r \in ExtReplies(sent, ExtMsg(sent, ExtMarker, sent[7], sent[8],
                                      Zeros(14))) }

\* the test of SetMode on the mode as it would be with the lower limit
\* one too low
ModeRejectedLow(mode) == mode < 3 \/ mode > 10

\* the test of SetMode on the mode
ModeRejected(mode) == mode < 4 \/ mode > 10

\* the modes given to SetMode
ModeInputs == {3, 4, 10, 11}

ThSetMode ==
    /\ dev.class = "thermostat"
    /\ \E mode \in ModeInputs :
         IF dev.address = Sentinel THEN NoOp("SetMode", mode)
         ELSE IF ModeRejected(mode) THEN Rejected("SetMode", mode)
         ELSE \E pre \in 0..2 :
                \E sc \in Unless(pre, OneExt(CsFrame(ModeCmd(dev.address, mode)))) :
                  ThSetModeBody(mode, pre, sc)

(***************************************************************************)
(* Strings of the schedule table: a string is the list of its characters.  *)
(***************************************************************************)
DigitChars == <<"0", "1", "2", "3", "4", "5", "6", "7", "8", "9">>

RECURSIVE Str(_)
\* str(n), n >= 0
Str(n) == IF n < 10 THEN <<DigitChars[n + 1]>>
          ELSE Str(n \div 10) \o <<DigitChars[(n % 10) + 1]>>

DigitVal(c) == CHOOSE k \in 0..9 : DigitChars[k + 1] = c

RECURSIVE IntAcc(_, _)
IntAcc(s, acc) == IF s = <<>> THEN acc
                  ELSE IntAcc(Tail(s), acc * 10 + DigitVal(s[1]))

\* int(s) of a string of digits
Int_(s) == IntAcc(s, 0)

RECURSIVE SplitAcc(_, _, _)
SplitAcc(s, sep, cur) ==
    IF s = <<>> THEN <<cur>>
    ELSE IF s[1] = sep THEN <<cur>> \o SplitAcc(Tail(s), sep, <<>>)
    ELSE SplitAcc(Tail(s), sep, Append(cur, s[1]))

\* s.split(sep)
Split(s, sep) == SplitAcc(s, sep, <<>>)

\* "{0:d}:{1:0>2d}:00".format(h, m)
tfmt(h, m) ==
    Str(h) \o <<":">> \o (IF m < 10 THEN <<"0">> ELSE <<>>) \o Str(m)
    \o <<":", "0", "0">>

(***************************************************************************)
(* GetSchedule.                                                            *)
(***************************************************************************)
\* the three columns of one period, from bytes 11 + 3 * iPeriod on
\* of the response
DecodePeriod(response, iPeriod) ==
    LET b == response[12 + iPeriod * 3]
        h == b \div 4
        m == ((b % 4) * 60) \div 4
    IN  << tfmt(h, m),
           Str(response[13 + iPeriod * 3]),
           Str(response[14 + iPeriod * 3]) >>

\* the line of the table for day iDay
schedLine(response, iDay, deviceId, zone) ==
    LET scheduleMode == 7
        scheduleId == iDay + 1 + (scheduleMode - 1) * 7 + 49 * zone
    IN  << Str(scheduleId), Str(deviceId), Str(zone), Str(scheduleMode),
           Str(iDay) >>
        \o DecodePeriod(response, 0) \o DecodePeriod(response, 1)
        \o DecodePeriod(response, 2) \o DecodePeriod(response, 3)

\* the command of GetSchedule for day iDay
GetDayCmd(address, iDay) ==
    ExtPrefix(address) \o <<46, 10 + iDay * 2>> \o Zeros(12)

\* the progress of the loop of GetSchedule or SetSchedule: the calls so
\* far, cumError, whether an exception has left it, and the table
SchedProgress(calls, cumError, exc, schedTable) ==
    [calls |-> calls, cumError |-> cumError, exc |-> exc,
     schedTable |-> schedTable]

\* the test of the time bytes as it would be if only the first period
\* were tested
TimeCheckFirst(response) == response[12] < 96

\* the test of the four time bytes of a response
TimeCheck(response) ==
    (response[12] < 96) /\ (response[15] < 96)
    /\ (response[18] < 96) /\ (response[21] < 96)

\* one pass of the loop of GetSchedule
GetDay(st, address, iDay, deviceId, zone, sc) ==
    IF st.exc THEN st
    ELSE
      LET tempStr == GetDayCmd(address, iDay)
          cmd2 == tempStr[8]
          r == ExtCrc(tempStr, TRUE, sc)
          calls == st.calls \o r.calls
          cumError == r.error \/ st.cumError
          cmdCheck == IF ~r.error THEN r.response[11] = cmd2 + 1 ELSE FALSE
          timeCheck == IF ~r.error THEN TimeCheck(r.response) ELSE FALSE
      IN  IF r.exc THEN SchedProgress(calls, st.cumError, TRUE, st.schedTable)
          ELSE IF (~cumError) /\ cmdCheck /\ timeCheck
          THEN SchedProgress(calls, cumError, FALSE,
                             Append(st.schedTable,
                                    schedLine(r.response, iDay, deviceId, zone)))
          ELSE SchedProgress(calls, TRUE, FALSE, st.schedTable)

RECURSIVE GetDays(_, _, _, _, _, _)
\* the loop over the days iDay..6
GetDays(st, address, iDay, deviceId, zone, scs) ==
    IF iDay >= 7 THEN st
    ELSE GetDays(GetDay(st, address, iDay, deviceId, zone, scs[iDay + 1]),
                 address, iDay + 1, deviceId, zone, scs)

\* the end of GetSchedule and of SetSchedule, after the flushes and the
\* loop st: the table is saved if no exchange failed.  reply is what the
\* channel answered
FinishSchedule(op, arg, st, reply) ==
    IF st.exc THEN Raised(op, arg, dev, FlushCalls \o st.calls)
    ELSE Returned(op, arg,
                  IF ~st.cumError THEN [dev EXCEPT !.schedule = st.schedTable]
                  ELSE dev,
                  FlushCalls \o st.calls, st.cumError, reply)

\* the ways a day of GetSchedule goes: those of an exchange, and "cmd", the
\* response does not carry command2 + 1; "time", a time byte is 96
DayKinds == Kinds \cup {"cmd", "time"}

DayScript(address, iDay, kind, base) ==
    LET sent == CrcFrame(GetDayCmd(address, iDay))
        cmd2 == sent[8]
        data == IF kind = "time"
                THEN [DayData(base) EXCEPT ![1 + 3 * (iDay % 4)] = 96]
                ELSE DayData(base)
        good == << Echo(sent, ACK),
                   StdMsg(sent, StdMarker, 46, cmd2),
                   ExtMsg(sent, ExtMarker, 46,
                          IF kind = "cmd" THEN cmd2 ELSE cmd2 + 1,
                          data \o <<0, 0>>) >>
    IN  Script(sent, IF kind \in Kinds THEN kind ELSE "ok", good)

\* the addresses of the devices that are not the null address
Addresses == { CheckAddress(a) : a \in AddrInputs } \ {Sentinel}

\* the loop of GetSchedule (deviceId 8, zone 0) for each address, schedule
\* and ways of the model: it reads no field of the device but the address
GetScheduleLoop ==
    [a \in Addresses, base \in Bases, w \in DayWays(DayKinds) |->
       GetDays(SchedProgress(<<>>, FALSE, FALSE, <<>>), a, 0, 8, 0,
               [i \in 1..7 |-> DayScript(a, i - 1, w[i], base)])]

ThGetSchedule ==
    /\ dev.class = "thermostat"
    /\ IF dev.address = Sentinel THEN NoOp("GetSchedule", 0)
       ELSE \E pre \in 0..2 :
              \E base \in Unless(pre, Bases), w \in Unless(pre, DayWays(DayKinds)) :
                IF pre # 0 THEN Raised("GetSchedule", 0, dev, PreFlush(pre))
                ELSE FinishSchedule("GetSchedule", 0,
                                    GetScheduleLoop[dev.address, base, w],
                                    [base |-> base, w |-> w])

(***************************************************************************)
(* SetSchedule.                                                            *)
(***************************************************************************)
\* the three bytes as they would be with the two setpoint columns taken in
\* the other order
EncodePeriodSwapped(schedRow, iPeriod) ==
    LET iCol == iPeriod * 3 + 5
        hm == Split(schedRow[iCol + 1], ":")
        h == Int_(hm[1])
        m == Int_(hm[2])
    IN  << h * 4 + (m \div 15),
           Int_(schedRow[iCol + 3]),
           Int_(schedRow[iCol + 2]) >>

\* the three bytes of one period of a row of the table
EncodePeriod(schedRow, iPeriod) ==
    LET iCol == iPeriod * 3 + 5
        hm == Split(schedRow[iCol + 1], ":")
        h == Int_(hm[1])
        m == Int_(hm[2])
    IN  << h * 4 + (m \div 15),
           Int_(schedRow[iCol + 2]),
           Int_(schedRow[iCol + 3]) >>

\* the command of SetSchedule for a row of the table
SetDayCmd(address, schedRow) ==
    ExtPrefix(address) \o <<46, 3 + Int_(schedRow[5])>>
    \o EncodePeriod(schedRow, 0) \o EncodePeriod(schedRow, 1)
    \o EncodePeriod(schedRow, 2) \o EncodePeriod(schedRow, 3)

\* one pass of the loop as it would be if the loop ended at the first
\* exchange that fails
SetDayStop(st, address, schedRow, sc) ==
    IF st.exc \/ st.cumError THEN st
    ELSE
      LET tempStr == SetDayCmd(address, schedRow)
          r == ExtCrc(tempStr, FALSE, sc)
          calls == st.calls \o r.calls
          cumError == r.error \/ st.cumError
      IN  IF r.exc THEN SchedProgress(calls, st.cumError, TRUE, st.schedTable)
          ELSE SchedProgress(calls, cumError, FALSE, st.schedTable)

\* one pass of the loop of SetSchedule
SetDay(st, address, schedRow, sc) ==
    IF st.exc THEN st
    ELSE
      LET tempStr == SetDayCmd(address, schedRow)
          r == ExtCrc(tempStr, FALSE, sc)
          calls == st.calls \o r.calls
          cumError == r.error \/ st.cumError
      IN  IF r.exc THEN SchedProgress(calls, st.cumError, TRUE, st.schedTable)
          ELSE SchedProgress(calls, cumError, FALSE, st.schedTable)

RECURSIVE SetDays(_, _, _, _)
\* the loop over the rows from row i on
SetDays(st, address, i, scs) ==
    IF i > Len(st.schedTable) THEN st
    ELSE SetDays(SetDay(st, address, st.schedTable[i], scs[i]),
                 address, i + 1, scs)

SetDayScript(address, schedRow, kind) ==
    LET sent == CrcFrame(SetDayCmd(address, schedRow))
    IN  Script(sent, kind, << Echo(sent, ACK),
                              StdMsg(sent, StdMarker, 46, sent[8]) >>)

\* a table as GetSchedule builds it from the bytes of DayData(base)
Table(base) ==
    [i \in 1..7 |->
       schedLine(ExtMsg(Zeros(8), ExtMarker, 46, 0, DayData(base) \o <<0, 0>>),
                 i - 1, 8, 0)]

\* the tables given to SetSchedule: of 7 rows, of 6 and of 8
SchedInputs ==
    { Table(b) : b \in Bases }
    \cup { SubSeq(Table(b), 1, 6) : b \in Bases }
    \cup { Append(Table(b), Table(b)[1]) : b \in Bases }

\* the loop of SetSchedule for each address, table of 7 rows and ways of
\* the model: it reads no field of the device but the address
SetScheduleLoop ==
    [a \in Addresses, schedTable \in { t \in SchedInputs : Len(t) = 7 },
     w \in DayWays(Kinds) |->
       SetDays(SchedProgress(<<>>, FALSE, FALSE, schedTable), a, 1,
               [i \in 1..7 |-> SetDayScript(a, schedTable[i], w[i])])]

ThSetSchedule ==
    /\ dev.class = "thermostat"
    /\ \E schedTable \in SchedInputs :
         IF dev.address = Sentinel THEN NoOp("SetSchedule", Len(schedTable))
         ELSE IF Len(schedTable) # 7
         THEN Rejected("SetSchedule", Len(schedTable))
         ELSE \E pre \in 0..2 :
                \E w \in Unless(pre, DayWays(Kinds)) :
                  IF pre # 0
                  THEN Raised("SetSchedule", Len(schedTable), dev, PreFlush(pre))
                  ELSE FinishSchedule("SetSchedule", Len(schedTable),
                                      SetScheduleLoop[dev.address, schedTable, w],
                                      [schedTable |-> schedTable, w |-> w])

(***************************************************************************)
(* The transport functions called on their own: x is the call and what it  *)
(* returned.                                                               *)
(***************************************************************************)
Exchange(fn, cmdStr, nResponse, extreadback, sc, res) ==
    [fn |-> fn, cmdStr |-> cmdStr, nResponse |-> nResponse,
     extreadback |-> extreadback, sc |-> sc, res |-> res]

NoExchange ==
    Exchange("none", <<>>, 0, FALSE, [wr |-> FALSE, rd |-> <<>>],
             Result(<<>>, FALSE, FALSE, <<>>))

TestAddress == <<26, 43, 60>>

\* the commands given to StdCmd: one of 8 bytes, one of 7 and one of 9
StdCmds ==
    LET c == StdFrame(TestAddress, 25, 0)
    IN  {c, Head_(c, 7), Append(c, 0)}

\* the scripts of a standard exchange with n responses
StdScriptsN(sent, n) ==
    LET A == StdReplies(sent, StdMsg(sent, StdMarker, sent[7], 0))
    IN  { [wr |-> w, rd |-> <<e>> \o as] :
            w \in BOOLEAN, e \in EchoReplies(sent), as \in [1..n -> A] }

XStdCmd ==
    /\ x.fn = "none"
    /\ \E cmdStr \in StdCmds, nResponse \in 1..MaxResponses :
      \E sc \in StdScriptsN(cmdStr, nResponse) :
        /\ x' = Exchange("StdCmd", cmdStr, nResponse, FALSE, sc,
                         StdCmd(cmdStr, nResponse, sc))
        /\ UNCHANGED <<dev, chan, lastEvent, last>>

\* the commands given to ExtCrc: one of 20 bytes, one of 19 and one of 21
ExtCrcCmds ==
    LET c == GetDayCmd(TestAddress, 0)
    IN  {c, Head_(c, 19), Append(c, 0)}

XExtCrc ==
    /\ x.fn = "none"
    /\ \E cmdStr \in ExtCrcCmds, extreadback \in BOOLEAN :
      \E sc \in ExtScripts(CrcFrame(cmdStr)) :
        /\ x' = Exchange("ExtCrc", cmdStr, 1, extreadback, sc,
                         ExtCrc(cmdStr, extreadback, sc))
        /\ UNCHANGED <<dev, chan, lastEvent, last>>

\* the commands given to ExtChecksum: two of 21 bytes, one of 20, one of 22
ExtCsCmds ==
    LET c == TempCmd(TestAddress)
    IN  {c, ModeCmd(TestAddress, 4), Head_(c, 20), Append(c, 0)}

XExtChecksum ==
    /\ x.fn = "none"
    /\ \E cmdStr \in ExtCsCmds :
      \E sc \in ExtScripts(CsFrame(cmdStr)) :
        /\ x' = Exchange("ExtChecksum", cmdStr, 1, TRUE, sc,
                         ExtChecksum(cmdStr, sc))
        /\ UNCHANGED <<dev, chan, lastEvent, last>>

(***************************************************************************)
(* The specifications.                                                     *)
(***************************************************************************)
\* what a thermostat reports in Spec
Readings == { Reading(2, 41, 50, 45, 0, 215) }

Init ==
    /\ dev \in { dimmer(a) : a \in AddrInputs }
               \cup { thermostat(a) : a \in AddrInputs }
    /\ chan = <<>>
    /\ lastEvent = "none"
    /\ last = Last("init", 0, "init", "none", -1)
    /\ x = NoExchange

Next ==
    \/ DimmerSetOn
    \/ DimmerSetOff
    \/ DimmerGetState
    \/ ThGetState(Readings)
    \/ ThUpSetPoint
    \/ ThDownSetPoint
    \/ ThGetSchedule
    \/ ThSetSchedule
    \/ ThSetMode

Spec == Init /\ [][Next]_vars

NextX == XStdCmd \/ XExtCrc \/ XExtChecksum

\* the transport functions are called once, on a channel that answers
\* in any of the ways of the scripts
InitX ==
    /\ dev = dimmer(TestAddress)
    /\ chan = <<>>
    /\ lastEvent = "none"
    /\ last = Last("init", 0, "init", "none", -1)
    /\ x = NoExchange

SpecX == InitX /\ [][NextX]_vars

(***************************************************************************)
(* The constructors, and every operation after them: x keeps the address   *)
(* that was given to __init__.                                             *)
(***************************************************************************)
\* the addresses given to the constructors: those of Spec, none at all,
\* four values, and a value out of range in the last place
CtorInputs ==
    AddrInputs \cup { <<>>, <<26, 43, 60, 77>>, <<0, 0, 256>>, <<26, 43, -1>> }

InitA ==
    /\ \E a \in CtorInputs :
         /\ dev \in {dimmer(a), thermostat(a)}
         /\ x = [fn |-> "__init__", address |-> a]
    /\ chan = <<>>
    /\ lastEvent = "none"
    /\ last = Last("init", 0, "init", "none", -1)

SpecA == InitA /\ [][Next]_vars

(***************************************************************************)
(* The round trip of a dimmer: SetOn(level) as the first operation on the  *)
(* device, for every level of 0..100, then GetState, any number of times,  *)
(* on a device that reports the byte SetOn sent.                           *)
(***************************************************************************)
RTLevels == 0..100

RTSetOn ==
    /\ dev.class = "dimmer"
    /\ last.op = "init"
    /\ \E level \in RTLevels, k \in {"ok", "marker"} :
         LET sent == StdFrame(dev.address, 17, LevelByte(level))
         IN  DimmerSetOnBody(level, 0,
               Script(sent, k, <<Echo(sent, ACK),
                                 StdMsg(sent, StdMarker, 17, LevelByte(level))>>))

RTGetState ==
    /\ dev.class = "dimmer"
    /\ \E k \in {"ok", "raise"} :
         LET sent == StdFrame(dev.address, 25, 0)
         IN  DimmerGetStateBody(0,
               Script(sent, k, <<Echo(sent, ACK),
                                 StdMsg(sent, StdMarker, 25,
                                        LevelByte(dev.lastSetLevel))>>))

NextRT == RTSetOn \/ RTGetState

SpecRT == InitX /\ [][NextRT]_vars

(***************************************************************************)
(* The fields of a dimmer: SetOn(level) as the first operation, for every  *)
(* level of 0..100, SetOff as the first operation or after SetOn, and then *)
(* one GetState on a device that reports any byte.                         *)
(***************************************************************************)
\* ord(response[-1:]), any byte
DBytes == 0..255

DSetOff ==
    /\ dev.class = "dimmer"
    /\ last.op \in {"init", "SetOn"}
    /\ \E k \in {"ok", "marker"} :
         LET sent == StdFrame(dev.address, 19, 0)
         IN  DimmerSetOffBody(0,
               Script(sent, k, <<Echo(sent, ACK),
                                 StdMsg(sent, StdMarker, 19, 0)>>))

DGetState ==
    /\ dev.class = "dimmer"
    /\ last.op # "GetState"
    /\ \E xb \in DBytes, k \in {"ok", "short"} :
         LET sent == StdFrame(dev.address, 25, 0)
         IN  DimmerGetStateBody(0,
               Script(sent, k, <<Echo(sent, ACK),
                                 StdMsg(sent, StdMarker, 25, xb)>>))

NextD == RTSetOn \/ DSetOff \/ DGetState

SpecD == InitX /\ [][NextD]_vars

(***************************************************************************)
(* GetState of a thermostat, called on a new thermostat and again after    *)
(* every GetState that succeeded, on a thermostat that reports any mode    *)
(* byte of 0..9, or 255.                                                   *)
(***************************************************************************)
TReadings ==
    { Reading(m, 41, 50, 45, 0, 215) : m \in 0..9 \cup {255} }
    \cup { Reading(1, 40, 52, 30, 1, 4) }

TGetState ==
    /\ (last.op = "init") \/ (last.status = "ok")
    /\ ThGetState(TReadings)

NextT == TGetState

InitT ==
    /\ dev = thermostat(TestAddress)
    /\ chan = <<>>
    /\ lastEvent = "none"
    /\ last = Last("init", 0, "init", "none", -1)
    /\ x = NoExchange

SpecT == InitT /\ [][NextT]_vars

(***************************************************************************)
(* The functions of the bytes, called once on inputs of their own: the     *)
(* checksum of ExtChecksum, CalcCrcStr on a string and on the same string  *)
(* with one bit flipped, and the unpacking of a period by GetSchedule      *)
(* followed by its packing by SetSchedule.                                 *)
(***************************************************************************)
\* the commands of 21 bytes given to ExtChecksum: command1, command2, the
\* first and the last byte of data vary
CsInputs ==
    { ExtPrefix(TestAddress) \o <<c1, c2, d1>> \o Zeros(11) \o <<d13>> :
        c1 \in {0, 46, 107}, c2 \in 0..10 \cup {255},
        d1 \in {0, 1, 128, 255}, d13 \in {0, 255} }

FExtChecksum ==
    /\ x.fn = "none"
    /\ \E cmdStr \in CsInputs :
         LET sent == CsFrame(cmdStr)
             sc == Script(sent, "ok",
                          << Echo(sent, ACK),
                             StdMsg(sent, StdMarker, sent[7], sent[8]),
                             ExtMsg(sent, ExtMarker, sent[7], sent[8],
                                    Zeros(14)) >>)
         IN  x' = Exchange("ExtChecksum", cmdStr, 1, TRUE, sc,
                           ExtChecksum(cmdStr, sc))
    /\ UNCHANGED <<dev, chan, lastEvent, last>>

\* dataStr with bit k of its character iChar flipped
FlipBit(dataStr, iChar, k) ==
    LET b == dataStr[iChar]
    IN  [dataStr EXCEPT ![iChar] = IF (b \div (2 ^ k)) % 2 = 1
                                   THEN b - 2 ^ k ELSE b + 2 ^ k]

\* the strings given to CalcCrcStr: those of the operations (14 bytes) and
\* some of 1, 2 and 3 bytes
CrcInputs == CrcKnown \cup { <<0>>, <<255>>, <<128, 1>>, <<1, 2, 3>> }

FCalcCrcStr ==
    /\ x.fn = "none"
    /\ \E dataStr \in CrcInputs :
         \E iChar \in 1..Len(dataStr), iBit \in 0..7 :
           x' = [fn |-> "CalcCrcStr", dataStr |-> dataStr,
                 iChar |-> iChar, iBit |-> iBit,
                 crcStr |-> CalcCrcStr(dataStr),
                 crcFlipped |-> CalcCrcStr(FlipBit(dataStr, iChar, iBit))]
    /\ UNCHANGED <<dev, chan, lastEvent, last>>

\* the setpoint bytes of a period
SetpointBytes == {0, 9, 18, 24, 255}

\* the response of day 0 of GetSchedule whose period iPeriod holds the
\* bytes b, cool and heat
PeriodResponse(iPeriod, b, cool, heat) ==
    LET d == DayData(0)
        data == [i \in 1..12 |->
                   IF i = 1 + 3 * iPeriod THEN b
                   ELSE IF i = 2 + 3 * iPeriod THEN cool
                   ELSE IF i = 3 + 3 * iPeriod THEN heat
                   ELSE d[i]]
    IN  ExtMsg(Zeros(8), ExtMarker, 46, 11, data \o <<0, 0>>)

FPack ==
    /\ x.fn = "none"
    /\ \E iPeriod \in 0..3, b \in 0..95,
          cool \in SetpointBytes, heat \in SetpointBytes :
         LET schedRow == schedLine(PeriodResponse(iPeriod, b, cool, heat),
                                   0, 8, 0)
         IN  x' = [fn |-> "Pack", iPeriod |-> iPeriod,
                   b |-> b, cool |-> cool, heat |-> heat,
                   schedRow |-> schedRow,
                   packed |-> EncodePeriod(schedRow, iPeriod)]
    /\ UNCHANGED <<dev, chan, lastEvent, last>>

NextF == FExtChecksum \/ FCalcCrcStr \/ FPack

SpecF == InitX /\ [][NextF]_vars

(***************************************************************************)
(* What is read off x, the call of a transport function on its own.        *)
(***************************************************************************)
\* the function wrote its frame and the write returned
XWrote == (x.fn # "none") /\ (x.res.calls # <<>>) /\ (~x.res.exc)

\* the frame written
XFrame == x.res.calls[1].data

\* the number of calls of method c made on the channel
XCount(c) == Cardinality({ i \in DOMAIN x.res.calls : x.res.calls[i].c = c })

\* the number of reads the exchange has to make, and the bytes read i asks
XAsked == IF x.fn = "StdCmd" THEN 1 + x.nResponse
          ELSE IF x.extreadback THEN 3 ELSE 2

XWant(i) == IF i = 1 THEN Len(XFrame) + 1
            ELSE IF x.fn = "StdCmd" \/ i = 2 THEN 11 ELSE 25

XRaises(i) == x.sc.rd[i].raise
XShort(i) == (~x.sc.rd[i].raise) /\ (Len(x.sc.rd[i].data) < XWant(i))
XExact(i) == (~x.sc.rd[i].raise) /\ (Len(x.sc.rd[i].data) = XWant(i))
XAllExact == \A i \in 1..XAsked : XExact(i)

\* the reads that are standard-ack segments
XStdSegs == IF x.fn = "StdCmd" THEN 2..(1 + x.nResponse) ELSE {2}

(***************************************************************************)
(* The properties.                                                         *)
(***************************************************************************)

\* C1: an operation on a device whose address is [0,0,0] makes no call on
\* the channel and leaves every field of the device as it was.
C1_SentinelNoOp ==
    [][(dev.address = Sentinel) => (dev' = dev /\ chan' = <<>>)]_vars

\* a thermostat built with an address that is not valid was asked to
\* SetSchedule
C1_Witness ==
    /\ dev.class = "thermostat"
    /\ dev.address = Sentinel
    /\ last.op = "SetSchedule"
    /\ last.status = "noop"
    /\ chan = <<>>

\* C2: after a GetState that succeeded, manualOverride is true if and only
\* if lastGetOn differs from lastSetOn or the levels differ by more than 2.
C2_OverrideIff ==
    (dev.class = "dimmer" /\ last.op = "GetState" /\ last.status = "ok")
    => (dev.manualOverride
        <=> ((dev.lastGetOn # dev.lastSetOn)
             \/ (Abs(dev.lastGetLevel - dev.lastSetLevel) > 2)))

\* C3, as stated: for every level of 0..100, after SetOn(level) succeeded
\* and then GetState succeeded on the byte round(level*2.55), lastGetLevel
\* is within 2 of level and manualOverride is false.
C3_RoundTripAll ==
    [][(/\ last.op = "SetOn" /\ last.status = "ok" /\ last.arg \in 0..100
        /\ last'.op = "GetState" /\ last'.status = "ok"
        /\ last'.reply = LevelByte(last.arg))
       => (/\ Abs(dev'.lastGetLevel - last.arg) <= 2
           /\ ~dev'.manualOverride)]_vars

\* C3, amended: the same for every level of 1..100.  (After SetOn(0) the
\* device is recorded as on, and the byte 0 is read as off.)
C3_RoundTrip ==
    [][(/\ last.op = "SetOn" /\ last.status = "ok" /\ last.arg \in 1..100
        /\ last'.op = "GetState" /\ last'.status = "ok"
        /\ last'.reply = LevelByte(last.arg))
       => (/\ Abs(dev'.lastGetLevel - last.arg) <= 2
           /\ ~dev'.manualOverride)]_vars

\* GetState succeeded on the byte 229 after SetOn(90): the level whose
\* byte is rounded down
C3_Witness ==
    /\ last.op = "GetState" /\ last.status = "ok" /\ last.reply = 229
    /\ dev.lastSetOn /\ dev.lastSetLevel = 90
    /\ dev.lastGetLevel = 90
    /\ ~dev.manualOverride

\* C4: an exchange that wrote its frame and returns an error has called
\* flushInput and flushOutput after the write.
C4_ErrorFlushes ==
    (XWrote /\ x.res.error)
    => (/\ \E i \in 2..Len(x.res.calls) : x.res.calls[i].c = "flushInput"
        /\ \E i \in 2..Len(x.res.calls) : x.res.calls[i].c = "flushOutput")

\* C5: when every read returns the length asked for and byte[1] of a
\* standard-ack segment is not 0x50, the exchange returns an error and an
\* empty response, and calls flushInput once and flushOutput once.
C5_BadStdMarker ==
    (XWrote /\ XAllExact /\ (\E i \in XStdSegs : x.sc.rd[i].data[2] # 80))
    => (/\ x.res.error
        /\ x.res.response = <<>>
        /\ XCount("flushInput") = 1
        /\ XCount("flushOutput") = 1)

\* StdCmd with two segments or more, only the first of which has a bad
\* marker
C5_Witness ==
    /\ XWrote /\ XAllExact
    /\ x.fn = "StdCmd" /\ x.nResponse >= 2
    /\ x.sc.rd[1].data[Len(x.sc.rd[1].data)] = 6
    /\ x.sc.rd[2].data[2] # 80
    /\ \A i \in 3..XAsked : x.sc.rd[i].data[2] = 80
    /\ x.res.error
    /\ XCount("flushInput") = 1

\* C6: when the read of the echo returns fewer bytes than len(frame)+1, the
\* exchange returns an error and an empty response whatever the bytes are,
\* and the markers are not tested (nothing is flushed).
C6_ShortEcho ==
    (XWrote /\ XShort(1))
    => (/\ x.res.error
        /\ x.res.response = <<>>
        /\ XCount("flushInput") = 0
        /\ XCount("flushOutput") = 0)

\* the echo is one byte short and ends in 0x06, and the standard ack is
\* the right one
C6_Witness ==
    /\ XWrote
    /\ x.sc.rd[1] = Reply(ShortEcho(XFrame))
    /\ \A i \in 2..XAsked : XExact(i)
    /\ \A i \in XStdSegs : /\ x.sc.rd[i].data[2] = 80
                           /\ x.sc.rd[i].data[10] = XFrame[7]
                           /\ x.sc.rd[i].data[11] = XFrame[8]
    /\ x.res.error

\* C7: an exchange whose reads all return the lengths asked for succeeds
\* if and only if the echo ends in 0x06, byte[1] of every standard-ack
\* segment is 0x50, for an extended exchange the standard ack ends in the
\* command bytes sent, and byte[1] of the extended segment, when it is
\* read, is 0x51.
C7_SuccessIff ==
    (XWrote /\ XAllExact)
    => ((~x.res.error)
        <=> (/\ x.sc.rd[1].data[Len(x.sc.rd[1].data)] = 6
             /\ \A i \in XStdSegs : x.sc.rd[i].data[2] = 80
             /\ (x.fn # "StdCmd")
                  => (SubSeq(x.sc.rd[2].data, 10, 11) = SubSeq(XFrame, 7, 8))
             /\ (x.fn # "StdCmd" /\ x.extreadback)
                  => (x.sc.rd[3].data[2] = 81)))

\* an extended exchange whose markers are right and whose standard ack
\* does not carry the command2 sent
C7_Witness ==
    /\ XWrote /\ XAllExact
    /\ x.fn = "ExtCrc"
    /\ x.sc.rd[1].data[Len(x.sc.rd[1].data)] = 6
    /\ x.sc.rd[2].data[2] = 80
    /\ x.sc.rd[2].data[11] # XFrame[8]
    /\ x.extreadback /\ x.sc.rd[3].data[2] = 81
    /\ x.res.error

\* C8, as stated: once a read fails, by an exception or by returning fewer
\* bytes than asked, the exchange returns an error and makes no more reads.
C8_FailedReadStops ==
    XWrote =>
      \A i \in 1..XAsked :
        ((XRaises(i) \/ XShort(i)) /\ (\A j \in 1..(i - 1) : XExact(j)))
        => (x.res.error /\ XCount("read") = i)

\* C8, amended: once a read raises the exchange returns an error and makes
\* no more reads; a read that returns fewer bytes than asked does not stop
\* the reads: unless one raises all of them are made, and then the
\* exchange returns an error.
C8_RaiseStops ==
    XWrote =>
      /\ \A i \in 1..XAsked :
           (XRaises(i) /\ (\A j \in 1..(i - 1) : ~XRaises(j)))
           => (x.res.error /\ XCount("read") = i)
      /\ (\A i \in 1..XAsked : ~XRaises(i))
           => (/\ XCount("read") = XAsked
               /\ (\E i \in 1..XAsked : XShort(i)) => x.res.error)

\* the echo came whole and the second read of three or more raised
C8_Witness ==
    /\ XWrote
    /\ XAsked >= 3
    /\ XExact(1)
    /\ XRaises(2)
    /\ XCount("read") = 2
    /\ x.res.error

\* C9: no exception raised by the channel leaves an operation.
C9_NoPropagation == last.status # "raised"

\* C10: "entered" is printed only by an operation that failed on a device
\* whose errorStatus was false, "recovered" only by one that succeeded on a
\* device whose errorStatus was true; a failure on a device in error and a
\* success on one not in error print nothing; and the events alternate,
\* the first being "entered".
C10_EdgesOnly ==
    [][/\ (last'.event = "entered")
            => (last'.status = "failed" /\ ~dev.errorStatus
                /\ lastEvent \in {"none", "recovered"})
       /\ (last'.event = "recovered")
            => (last'.status = "ok" /\ dev.errorStatus
                /\ lastEvent = "entered")
       /\ (last'.status = "failed" /\ dev.errorStatus) => (last'.event = "none")
       /\ (last'.status = "ok" /\ ~dev.errorStatus) => (last'.event = "none")
       /\ lastEvent' = (IF last'.event = "none" THEN lastEvent ELSE last'.event)
      ]_vars

\* a device that had entered the error state recovered
C10_Witness ==
    /\ last.event = "recovered"
    /\ lastEvent = "recovered"
    /\ ~dev.errorStatus

\* C13: SetMode with a mode below 4 or above 10 makes no call on the
\* channel and leaves every field of the thermostat as it was; a SetMode
\* that makes a call on the channel has a mode of 4..10.
C13_SetModeRange ==
    [][(last'.op = "SetMode")
       => (/\ (last'.arg < 4 \/ last'.arg > 10) => (dev' = dev /\ chan' = <<>>)
           /\ (chan' # <<>>) => (last'.arg \in 4..10))]_vars

\* SetMode(3) or SetMode(11) was refused by a thermostat with a valid
\* address
C13_Witness ==
    /\ dev.class = "thermostat" /\ dev.address # Sentinel
    /\ last.op = "SetMode" /\ last.arg \in {3, 11}
    /\ last.status = "rejected"
    /\ chan = <<>>

\* C14: SetSchedule with a table that has not exactly 7 rows makes no call
\* on the channel and leaves the schedule and errorStatus as they were.
C14_SetScheduleRows ==
    [][(last'.op = "SetSchedule" /\ last'.arg # 7)
       => (/\ chan' = <<>>
           /\ dev'.schedule = dev.schedule
           /\ dev'.errorStatus = dev.errorStatus)]_vars

\* a table of 8 rows was refused by a thermostat that holds a schedule
C14_Witness ==
    /\ dev.class = "thermostat" /\ dev.address # Sentinel
    /\ last.op = "SetSchedule" /\ last.arg = 8
    /\ last.status = "rejected"
    /\ dev.schedule # <<>>
    /\ chan = <<>>

\* C11: the byte ExtChecksum appends to a command of 21 bytes makes the
\* sum of the 16 bytes from command1 to that byte a multiple of 256.
C11_ChecksumZero ==
    (x.fn = "ExtChecksum")
    => (/\ XWrote
        /\ Len(XFrame) = 22
        /\ SubSeq(XFrame, 1, 21) = x.cmdStr
        /\ SumSeq(SubSeq(XFrame, 7, 22)) % 256 = 0)

\* the 15 bytes of the command add up to 256, and the byte appended is 0
C11_Witness ==
    /\ x.fn = "ExtChecksum"
    /\ SumSeq(SubSeq(x.cmdStr, 7, 21)) = 256
    /\ XFrame[22] = 0
    /\ ~x.res.error

\* C12: CalcCrcStr gives two bytes that depend on its argument only, and
\* flipping one bit of one byte of the argument changes them.
C12_CrcBitFlip ==
    (x.fn = "CalcCrcStr")
    => (/\ Len(x.crcStr) = 2
        /\ x.crcStr = CalcCrcStr(x.dataStr)
        /\ x.crcFlipped # x.crcStr)

\* the last bit CalcCrcStr takes in, of a string of 14 bytes, was flipped
C12_Witness ==
    /\ x.fn = "CalcCrcStr"
    /\ Len(x.dataStr) = 14 /\ x.iChar = 14 /\ x.iBit = 7
    /\ x.crcFlipped # x.crcStr

\* C15: a period of time byte b in 0..95 and of any cool and heat bytes,
\* unpacked by GetSchedule into three columns of a row and packed again by
\* SetSchedule, gives the bytes b, cool and heat, in that order.
C15_PackRoundTrip ==
    (x.fn = "Pack")
    => (/\ Len(x.schedRow) = 17
        /\ x.packed = <<x.b, x.cool, x.heat>>)

\* the period 6:30, cool 24, heat 18
C15_Witness ==
    /\ x.fn = "Pack"
    /\ x.b = 26 /\ x.cool = 24 /\ x.heat = 18
    /\ x.schedRow[6 + 3 * x.iPeriod] = <<"6", ":", "3", "0", ":", "0", "0">>
    /\ x.packed = <<26, 24, 18>>

\* the frames written by the calls, in order
Writes(calls) == SelectSeq(calls, LAMBDA c : c.c = "write")

\* every one of the 7 days went well: the exchange succeeded and, for
\* GetSchedule, the response carried command2 + 1 and time bytes below 96
AllDaysOk(w) == \A i \in 1..7 : w[i] = "ok"

\* C16: a GetSchedule that returns stores a table of 7 rows, days 0..6 in
\* order, if every one of the 7 exchanges succeeded with response[10] =
\* command2 + 1 and four time bytes below 96; if not, it leaves the
\* schedule as it was and errorStatus is true.
C16_GetScheduleIff ==
    [][(last'.op = "GetSchedule" /\ last'.status \in {"ok", "failed"})
       => IF AllDaysOk(last'.reply.w)
          THEN /\ last'.status = "ok"
               /\ ~dev'.errorStatus
               /\ Len(dev'.schedule) = 7
               /\ \A i \in 1..7 : dev'.schedule[i][5] = Str(i - 1)
               /\ dev'.schedule = Table(last'.reply.base)
          ELSE /\ last'.status = "failed"
               /\ dev'.errorStatus
               /\ dev'.schedule = dev.schedule]_vars

\* the fourth day came with a time byte of 96, all the other days went
\* well, and the thermostat keeps no schedule
C16_Witness ==
    /\ last.op = "GetSchedule" /\ last.status = "failed"
    /\ last.reply.w[4] = "time"
    /\ \A i \in 1..7 : i # 4 => last.reply.w[i] = "ok"
    /\ Len(Writes(chan)) = 7
    /\ dev.schedule = <<>>
    /\ dev.errorStatus

\* C17: a SetSchedule of a table of 7 rows that returns has written 7
\* frames, one per row in order, whichever exchanges failed, and has asked
\* for no read of 25 bytes; it stores the table if and only if the 7
\* exchanges succeeded, and errorStatus is true if and only if one failed.
C17_SetScheduleAllRows ==
    [][(last'.op = "SetSchedule" /\ last'.arg = 7
        /\ last'.status \in {"ok", "failed"})
       => (/\ Len(Writes(chan')) = 7
           /\ \A i \in 1..7 :
                /\ Len(Writes(chan')[i].data) = 22
                /\ Writes(chan')[i].data[7] = 46
                /\ Writes(chan')[i].data[8]
                     = 3 + Int_(last'.reply.schedTable[i][5])
           /\ \A i \in 1..Len(chan') : chan'[i] # ReadCall(25)
           /\ IF AllDaysOk(last'.reply.w)
              THEN /\ last'.status = "ok"
                   /\ dev'.schedule = last'.reply.schedTable
                   /\ ~dev'.errorStatus
              ELSE /\ last'.status = "failed"
                   /\ dev'.schedule = dev.schedule
                   /\ dev'.errorStatus)]_vars

\* the first read of the first row raised, the six other rows were
\* written all the same, and the table was not stored
C17_Witness ==
    /\ last.op = "SetSchedule" /\ last.status = "failed"
    /\ last.reply.w[1] = "raise"
    /\ \A i \in 2..7 : last.reply.w[i] = "ok"
    /\ Len(Writes(chan)) = 7
    /\ dev.schedule = <<>>
    /\ dev.errorStatus


(***************************************************************************)
(* GetState of a thermostat, read off the answers of the channel: rdg is   *)
(* what the thermostat reports and w the way each exchange goes.           *)
(***************************************************************************)
ModeNames == <<"Off", "Heat", "Cool", "Auto", "Fan", "Program",
               "Program Heat", "Program Cool">>

GetStateReturns(l) ==
    l.op = "GetState" /\ l.status \in {"ok", "failed"}

\* the steps of a GetState that did what they are for
ModeStepOk(r) == r.w[1] = "ok" /\ r.rdg.mode \in 0..7
StepOk(r, i) == IF i = 1 THEN ModeStepOk(r) ELSE r.w[i] = "ok"

\* the two command bytes of every frame written, in the order written
Commands(calls) ==
    [i \in 1..Len(Writes(calls)) |->
        <<Writes(calls)[i].data[7], Writes(calls)[i].data[8]>>]

\* C18: a GetState of a thermostat that returns has sent the four commands
\* mode, setpoints, humidity and temperature, in that order, whichever of
\* them failed; each step that failed leaves its own fields as they were,
\* each step that succeeded stores what was reported; errorStatus is true
\* exactly when some step failed.
C18_GetStateAllSteps ==
    [][GetStateReturns(last')
       => LET r == last'.reply
          IN  /\ Commands(chan') = <<<<107, 2>>, <<106, 32>>, <<106, 96>>, <<46, 0>>>>
              /\ IF StepOk(r, 1)
                 THEN dev'.mode = r.rdg.mode
                 ELSE dev'.mode = dev.mode /\ dev'.modeText = dev.modeText
              /\ IF StepOk(r, 2)
                 THEN /\ dev'.targetHeat = (r.rdg.heat + 1) \div 2
                      /\ dev'.targetCool = (r.rdg.cool + 1) \div 2
                 ELSE /\ dev'.targetHeat = dev.targetHeat
                      /\ dev'.targetCool = dev.targetCool
              /\ IF StepOk(r, 3)
                 THEN dev'.actualHumi = r.rdg.humi
                 ELSE dev'.actualHumi = dev.actualHumi
              /\ IF StepOk(r, 4)
                 THEN dev'.actualTemp = r.rdg.hi * 256 + r.rdg.lo
                 ELSE dev'.actualTemp = dev.actualTemp
              /\ dev'.errorStatus = (\E i \in 1..4 : ~StepOk(r, i))
              /\ (last'.status = "failed") = dev'.errorStatus]_vars

\* a second GetState whose setpoint exchange failed alone: the setpoints
\* are those of the first reading, the rest is of the second
C18_Witness ==
    /\ GetStateReturns(last)
    /\ last.reply.w = <<"ok", "marker", "ok", "ok">>
    /\ last.reply.rdg = Reading(2, 41, 50, 45, 0, 215)
    /\ dev.targetHeat = 20 /\ dev.targetCool = 26
    /\ dev.mode = 2 /\ dev.actualHumi = 45 /\ dev.actualTemp = 215
    /\ dev.errorStatus
    /\ Len(Writes(chan)) = 4

\* C19: when the mode exchange succeeds, a mode byte of 0..7 is stored as
\* mode with the name Off, Heat, Cool, Auto, Fan, Program, Program Heat or
\* Program Cool as modeText; a mode byte of 9 or more leaves mode and
\* modeText as they were and GetState reports an error.
C19_ModeMapping ==
    [][(GetStateReturns(last') /\ last'.reply.w[1] = "ok")
       => LET m == last'.reply.rdg.mode
          IN  /\ m \in 0..7 => /\ dev'.mode = m
                               /\ dev'.modeText = ModeNames[m + 1]
              /\ m >= 9 => /\ dev'.mode = dev.mode
                           /\ dev'.modeText = dev.modeText
                           /\ last'.status = "failed"
                           /\ dev'.errorStatus]_vars

\* a mode byte of 7 stored as Program Cool, and one of 255 refused after it
C19_Witness ==
    /\ GetStateReturns(last)
    /\ last.reply.w = <<"ok", "ok", "ok", "ok">>
    /\ last.reply.rdg.mode = 255
    /\ dev.mode = 7 /\ dev.modeText = "Program Cool"
    /\ dev.errorStatus

\* C20 as stated: a mode byte of exactly 8 is stored as mode with the name
\* Unknown and is no error of its step, so that errorStatus is false when
\* the three other steps succeed.
C20_ModeEightAccepted ==
    [][(GetStateReturns(last') /\ last'.reply.w[1] = "ok"
        /\ last'.reply.rdg.mode = 8)
       => /\ dev'.mode = 8
          /\ dev'.modeText = "Unknown"
          /\ (\A i \in 2..4 : last'.reply.w[i] = "ok")
                => (~dev'.errorStatus /\ last'.status = "ok")]_vars

\* C20: a mode byte of exactly 8 is refused as 9 or more are: mode and
\* modeText stay as they were, the step counts as failed and GetState
\* reports an error, also when the three other steps succeed.
C20_ModeEightRefused ==
    [][(GetStateReturns(last') /\ last'.reply.w[1] = "ok"
        /\ last'.reply.rdg.mode = 8)
       => /\ dev'.mode = dev.mode
          /\ dev'.modeText = dev.modeText
          /\ dev'.modeText # "Unknown"
          /\ last'.status = "failed"
          /\ dev'.errorStatus]_vars

\* a mode byte of 8 with four exchanges that went well, after a GetState
\* that stored Cool: the mode is still Cool and the error is set
C20_Witness ==
    /\ GetStateReturns(last)
    /\ last.reply.w = <<"ok", "ok", "ok", "ok">>
    /\ last.reply.rdg.mode = 8
    /\ dev.mode = 2 /\ dev.modeText = "Cool"
    /\ last.status = "failed"
    /\ dev.errorStatus


(***************************************************************************)
(* The operations of a dimmer that return.                                 *)
(***************************************************************************)
DimmerReturns(d, l) ==
    /\ d.class = "dimmer"
    /\ l.op \in {"SetOn", "SetOff", "GetState"}
    /\ l.status \in {"ok", "failed"}

\* C21: a SetOn, SetOff or GetState of a dimmer whose exchange fails leaves
\* lastSetOn, lastSetLevel, lastGetOn, lastGetLevel and manualOverride as
\* they were and makes errorStatus true; a SetOn(level) that succeeds makes
\* lastSetOn true, lastSetLevel level and manualOverride false, a SetOff
\* that succeeds makes them false, 0 and false, and both leave lastGetOn
\* and lastGetLevel as they were.
C21_DimmerFrame ==
    [][DimmerReturns(dev, last')
       => /\ (last'.status = "failed")
               => dev' = [dev EXCEPT !.errorStatus = TRUE]
          /\ (last'.status = "ok" /\ last'.op = "SetOn")
               => dev' = [dev EXCEPT !.lastSetOn = TRUE,
                                     !.lastSetLevel = last'.arg,
                                     !.manualOverride = FALSE,
                                     !.errorStatus = FALSE]
          /\ (last'.status = "ok" /\ last'.op = "SetOff")
               => dev' = [dev EXCEPT !.lastSetOn = FALSE,
                                     !.lastSetLevel = 0,
                                     !.manualOverride = FALSE,
                                     !.errorStatus = FALSE]]_vars

\* a SetOff failed on a dimmer that was set on at level 50 and seen on at
\* level 100: all of that is kept
C21_Witness ==
    /\ dev.class = "dimmer"
    /\ last.op = "SetOff" /\ last.status = "failed"
    /\ dev.lastSetOn /\ dev.lastSetLevel = 50
    /\ dev.lastGetOn /\ dev.lastGetLevel = 100
    /\ dev.manualOverride
    /\ dev.errorStatus
    /\ Len(Writes(chan)) = 1


(***************************************************************************)
(* The calls of an operation, exchange by exchange.                        *)
(***************************************************************************)
\* the places of the writes among the calls
WritePos(calls) == { i \in 1..Len(calls) : calls[i].c = "write" }

\* the number of frames written before call i
Before(calls, i) == Cardinality({ j \in WritePos(calls) : j < i })

\* call i comes directly after flushInput, flushOutput
FlushedBefore(calls, i) ==
    /\ i >= 3
    /\ calls[i - 2].c = "flushInput"
    /\ calls[i - 1].c = "flushOutput"

\* the operations of several exchanges that return, with the ways w of
\* their exchanges in last.reply
SeveralReturns(d, l) ==
    /\ d.class = "thermostat"
    /\ l.op \in {"GetState", "GetSchedule", "SetSchedule"}
    /\ l.status \in {"ok", "failed"}

\* exchange k of such an operation succeeded (in GetState: the step did)
ExchangeOk(l, k) ==
    IF l.op = "GetState" THEN StepOk(l.reply, k)
    ELSE l.reply.w[k] \in {"ok", "cmd", "time"}

CalledSince(calls, i, c) ==
    \E j \in 1..(i - 1) :
       calls[j].c = c /\ Before(calls, j) = Before(calls, i)

\* C23: in GetState of a thermostat, GetSchedule and SetSchedule, after an
\* exchange that failed (a read raised, a read came short, or a marker was
\* wrong), flushInput and flushOutput are called before the next frame is
\* written.
C23_FlushAfterFailure ==
    SeveralReturns(dev, last)
    => \A i \in WritePos(chan) :
         (/\ Before(chan, i) > 0
          /\ last.reply.w[Before(chan, i)] \in {"raise", "short", "marker"})
         => (/\ CalledSince(chan, i, "flushInput")
             /\ CalledSince(chan, i, "flushOutput"))


\* C24: an exchange given a command of the right length writes its frame
\* once, as its first call, and writes nothing more; its reads follow the
\* write directly and ask, in this order, for len(frame)+1 bytes, for 11
\* bytes nResponse times, and for 25 bytes when the extended segment is
\* asked for; it makes no read beyond these, all of them when none raises,
\* and none when the write raises.
C24_OneWriteThenReads ==
    (x.fn \in {"StdCmd", "ExtCrc", "ExtChecksum"} /\ x.res.calls # <<>>)
    => /\ x.res.calls[1].c = "write"
       /\ XCount("write") = 1
       /\ XCount("read") <= XAsked
       /\ \A i \in 1..XCount("read") : x.res.calls[1 + i] = ReadCall(XWant(i))
       /\ (~x.sc.wr /\ \A i \in 1..XAsked : ~XRaises(i))
            => XCount("read") = XAsked
       /\ x.sc.wr => XCount("read") = 0

\* ExtCrc without the extended segment, on a channel that answers well:
\* one write, a read of 23 bytes and one of 11, and nothing else
C24_Witness ==
    /\ x.fn = "ExtCrc" /\ ~x.extreadback
    /\ ~x.res.error
    /\ Len(XFrame) = 22
    /\ x.res.calls = <<WriteCall(XFrame), ReadCall(23), ReadCall(11)>>


\* an address __init__ does not take: not 3 values, or a value that is
\* not in 0..255
BadAddress(a) == Len(a) # 3 \/ \E i \in 1..Len(a) : a[i] < 0 \/ a[i] > 255

\* C25: a dimmer or a thermostat built with an address that has not 3
\* values, or a value below 0 or above 255, has the address [0,0,0]; the
\* address of every device is 3 values in 0..255 at all times; and no
\* operation on a device built with such an address makes a call on the
\* channel.
C25_AddressChecked ==
    (x.fn = "__init__")
    => /\ Len(dev.address) = 3
       /\ \A i \in 1..3 : dev.address[i] \in 0..255
       /\ BadAddress(x.address) => (dev.address = Sentinel /\ chan = <<>>)
       /\ ~BadAddress(x.address) => dev.address = x.address

\* a thermostat built with [26, 256, 60] was asked for its schedule
C25_Witness ==
    /\ x.fn = "__init__" /\ x.address = <<26, 256, 60>>
    /\ dev.class = "thermostat" /\ dev.address = Sentinel
    /\ last.op = "GetSchedule" /\ last.status = "noop"
    /\ chan = <<>>


\* every exchange of an operation of several exchanges went well
AllWentWell(l) ==
    IF l.op = "GetState" THEN \A k \in 1..4 : StepOk(l.reply, k)
    ELSE AllDaysOk(l.reply.w)

\* C26: after an operation that made its exchanges and returned,
\* errorStatus is true if and only if this operation failed (for an
\* operation of several exchanges: if one of them did), whatever
\* errorStatus was before; and the operation prints one event at most,
\* also when several of its exchanges fail.
C26_StatusOfThisCall ==
    [][(last'.status \in {"ok", "failed"})
       => /\ dev'.errorStatus = (last'.status = "failed")
          /\ SeveralReturns(dev', last')
               => (dev'.errorStatus = ~AllWentWell(last'))
          /\ last'.event \in {"none", "entered", "recovered"}
          /\ lastEvent' \in {lastEvent, last'.event}
          /\ (last'.event = "entered") = (dev'.errorStatus /\ ~dev.errorStatus)
          /\ (last'.event = "recovered") = (~dev'.errorStatus /\ dev.errorStatus)
      ]_vars

\* the seven exchanges of a GetSchedule failed on a thermostat that was not
\* in error: one event, "entered"
C26_Witness ==
    /\ last.op = "GetSchedule" /\ last.status = "failed"
    /\ \A i \in 1..7 : last.reply.w[i] = "marker"
    /\ Len(Writes(chan)) = 7
    /\ last.event = "entered"
    /\ lastEvent = "entered"
    /\ dev.errorStatus


\* the length of the command each transport function takes
XNeeds == IF x.fn = "StdCmd" THEN 8 ELSE IF x.fn = "ExtCrc" THEN 20 ELSE 21

\* C27: StdCmd given a command that has not 8 bytes, ExtCrc one that has
\* not 20 and ExtChecksum one that has not 21 return an error and an empty
\* response, and make no call on the channel: no write, no read, no flush.
C27_WrongLengthRefused ==
    (x.fn \in {"StdCmd", "ExtCrc", "ExtChecksum"} /\ Len(x.cmdStr) # XNeeds)
    => /\ x.res.error
       /\ x.res.response = <<>>
       /\ x.res.calls = <<>>
       /\ ~x.res.exc

\* ExtChecksum given 22 bytes, on a channel whose write would raise
C27_Witness ==
    /\ x.fn = "ExtChecksum" /\ Len(x.cmdStr) = 22
    /\ x.sc.wr
    /\ x.res.error /\ ~x.res.exc
    /\ XCount("write") = 0 /\ XCount("read") = 0
    /\ XCount("flushInput") = 0


\* C28: SetMode, UpSetPoint, DownSetPoint, GetSchedule and SetSchedule,
\* whatever their outcome, leave mode, modeText, targetHeat, targetCool,
\* actualTemp and actualHumi of the thermostat as they were; a SetMode(m)
\* that succeeds does not make mode m.
C28_OnlyGetStateObserves ==
    [][(/\ dev.class = "thermostat"
        /\ last'.op \in {"SetMode", "UpSetPoint", "DownSetPoint",
                         "GetSchedule", "SetSchedule"})
       => /\ dev'.mode = dev.mode
          /\ dev'.modeText = dev.modeText
          /\ dev'.targetHeat = dev.targetHeat
          /\ dev'.targetCool = dev.targetCool
          /\ dev'.actualTemp = dev.actualTemp
          /\ dev'.actualHumi = dev.actualHumi]_vars

\* SetMode(4) succeeded on a thermostat that GetState has seen in mode 2,
\* Cool: the mode is still 2
C28_Witness ==
    /\ dev.class = "thermostat"
    /\ last.op = "SetMode" /\ last.arg = 4 /\ last.status = "ok"
    /\ dev.mode = 2 /\ dev.modeText = "Cool"
    /\ dev.targetHeat = 21 /\ dev.targetCool = 25
    /\ dev.actualHumi = 45 /\ dev.actualTemp = 215


\* C29: with SetOn called with levels of 0..100, lastSetLevel and
\* lastGetLevel of a dimmer are in 0..100 at all times, lastSetLevel is 0
\* whenever lastSetOn is false, and lastGetLevel is 0 whenever lastGetOn is
\* false.
C29_DimmerRanges ==
    (dev.class = "dimmer")
    => /\ dev.lastSetLevel \in 0..100
       /\ dev.lastGetLevel \in 0..100
       /\ (~dev.lastSetOn) => dev.lastSetLevel = 0
       /\ (~dev.lastGetOn) => dev.lastGetLevel = 0

\* GetState read the byte 1 from a dimmer that is set off: the dimmer is
\* seen on at level 0, and is recorded as set off at level 0
C29_Witness ==
    /\ dev.class = "dimmer"
    /\ last.op = "GetState" /\ last.status = "ok" /\ last.reply = 1
    /\ dev.lastGetOn /\ dev.lastGetLevel = 0
    /\ ~dev.lastSetOn /\ dev.lastSetLevel = 0
    /\ dev.manualOverride


(***************************************************************************)
(* The CRC of reference: a register of 16 bits, 0 at first, that takes the *)
(* bits of every byte in, lowest bit first; each step shifts it left by    *)
(* one, puts in the bit taken xor its bits 15, 14, 12 and 3, and cuts it   *)
(* to 16 bits.                                                             *)
(***************************************************************************)
RegBit(reg, k) == (reg \div (2 ^ k)) % 2

RECURSIVE Ref16Byte(_)
\* the 8 steps of one byte, from the state s = [reg, byte, iBit] on
Ref16Byte(s) ==
    IF s.iBit = 8 THEN s.reg
    ELSE LET fb == ((s.byte % 2) + RegBit(s.reg, 15) + RegBit(s.reg, 14)
                    + RegBit(s.reg, 12) + RegBit(s.reg, 3)) % 2
         IN  Ref16Byte([reg |-> (s.reg * 2 + fb) % 65536,
                        byte |-> s.byte \div 2,
                        iBit |-> s.iBit + 1])

RECURSIVE Ref16Loop(_)
\* the bytes from i on, from the state s = [reg, dataStr, i] on
Ref16Loop(s) ==
    IF s.i > Len(s.dataStr) THEN s.reg
    ELSE Ref16Loop([s EXCEPT
                      !.reg = Ref16Byte([reg |-> s.reg,
                                         byte |-> s.dataStr[s.i],
                                         iBit |-> 0]),
                      !.i = s.i + 1])

\* the register after all the bytes, high byte first
Ref16(dataStr) ==
    LET reg == Ref16Loop([reg |-> 0, dataStr |-> dataStr, i |-> 1])
    IN  <<reg \div 256, reg % 256>>

\* C30: the two bytes CalcCrcStr gives, from an accumulator that it never
\* cuts to 16 bits, are the high and the low byte of the CRC of reference,
\* whose register is cut to 16 bits after every step.
C30_CrcIsSixteenBits ==
    (x.fn = "CalcCrcStr")
    => /\ x.crcStr = Ref16(x.dataStr)
       /\ x.crcFlipped = Ref16(FlipBit(x.dataStr, x.iChar, x.iBit))

\* a string of 14 bytes whose accumulator has taken in 112 bits and has a
\* bit set above bit 15
C30_Witness ==
    /\ x.fn = "CalcCrcStr"
    /\ Len(x.dataStr) = 14
    /\ Len(CrcVal(x.dataStr).hi) = 112
    /\ \E i \in 1..112 : CrcVal(x.dataStr).hi[i] = 1
    /\ x.crcStr = Ref16(x.dataStr)
    /\ x.crcStr # <<0, 0>>

==============================================================================
